---- MODULE Spec2Model ----
(***************************************************************************)
(* Hardlink mirror groups: the sync engine (core/sync.py), the hardlink    *)
(* primitive (core/hardlink_ops.py), the registry lookup                   *)
(* (core/mirror_groups.py) and the debounced watcher (core/watcher.py).    *)
(*                                                                         *)
(* Every member folder is a small tree on one volume: the folder itself    *)
(* ("."), the marker file, a file name "a", a name "d" that                *)
(* may be a file, a real directory or a folder symlink, and "d/a" below    *)
(* it.  A directory entry is an integer: 0 = absent, n > 0 = a regular     *)
(* file with inode n, -1 = a real directory, -1-t = a folder symlink to    *)
(* the external directory t.                                               *)
(***************************************************************************)
EXTENDS Integers, Sequences, FiniteSets, TLC

\* ---------------------------------------------------------------- bounds
\* distinct file identities, and regular files the group holds before a call
MaxInode == 2
MaxFiles == 2
MaxDeleteFiles == 3
\* the watcher: the clock runs to MaxTime ticks (of 0.05 s) and the event
\* source delivers at most MaxEvents notifications
MaxTime == 4
MaxEvents == 3

\* ------------------------------------------------------------- constants
MIRROR_MARKER == ".hardlink_mirror"

ABSENT == 0
DIR == -1
ROOT == "."

Inodes == 1..MaxInode
Targets == {1, 2}
Folders == {1, 2, 3}
Outside == 0
AllFolders == {Outside} \cup Folders
TopPaths == {MIRROR_MARKER, "a", "d"}
Paths == TopPaths \cup {"d/a"}
TargetNames == {"a"}

Lnk(t) == (-1) - t
IsLnk(e) == e <= -2
LnkTarget(e) == (-1) - e
IsFile(e) == e > 0

\* inode of the marker file that create_group wrote into folder f
MarkerInode(f) == 10 + f

\* os.path.dirname / os.path.basename on a relative path of the tree
Parent(p) == IF p = "d/a" THEN "d" ELSE ROOT
Basename(p) == IF p = "d/a" THEN "a" ELSE p

VARIABLES fs, tgt, last, synced

\* the machine: platform.system() and the volume each directory tree is on
\* (a symlink target lies where the directory outside the group lies)
VARIABLES host

\* the watcher: the clock, the registry's one group, the handler's fields, the
\* timer threads, the notifications still to come, and what the event source
\* and the callbacks have seen
VARIABLES now, registry, _pending, _pending_deletes, _suppressed_deletes,
          _timer, _delete_timer, threads, budget, hist, wlast

\* the watchdog observer: whether its thread runs, the delete notifications
\* it has still to deliver, and which removals the watcher made itself
VARIABLES observer

\* the registry: the in-memory group table, the JSON file, the marker files'
\* contents, the last registry call, the next uuid4 and the wall clock
VARIABLES _groups, file, markers, rlast, uuid, clock

rvars == <<_groups, file, markers, rlast, uuid, clock>>

wvars == <<now, registry, _pending, _pending_deletes, _suppressed_deletes,
           _timer, _delete_timer, threads, budget, hist, wlast>>

vars == <<fs, tgt, host, last, synced, wvars, observer, rvars>>

\* the two parts of the filesystem, passed through the operators as one value
World == [fs |-> fs, tgt |-> tgt]

\* ----------------------------------------------------- filesystem queries
\* lstat: the directory entry a path names, the last component not followed
Lookup(w, f, p) ==
    IF p = ROOT THEN w.fs[f][ROOT]
    ELSE IF w.fs[f][ROOT] # DIR THEN ABSENT
    ELSE IF Parent(p) = ROOT THEN w.fs[f][p]
    ELSE LET d == w.fs[f][Parent(p)] IN
         IF d = DIR THEN w.fs[f][p]
         ELSE IF IsLnk(d) THEN w.tgt[LnkTarget(d)][Basename(p)]
         ELSE ABSENT

\* os.stat: follows a symlink in the last component (targets always exist)
Stat(w, f, p) == LET e == Lookup(w, f, p) IN IF IsLnk(e) THEN DIR ELSE e

Exists(w, f, p) == Stat(w, f, p) # ABSENT
IsDir(w, f, p) == Stat(w, f, p) = DIR
IsLink(w, f, p) == IsLnk(Lookup(w, f, p))

\* write entry e at path p of folder f, through a symlinked parent if any
SetEntry(w, f, p, e) ==
    IF p # ROOT /\ Parent(p) # ROOT /\ IsLnk(w.fs[f][Parent(p)])
    THEN [w EXCEPT !.tgt[LnkTarget(w.fs[f][Parent(p)])][Basename(p)] = e]
    ELSE [w EXCEPT !.fs[f][p] = e]

\* os.makedirs(dir, exist_ok=True) for the directory dp of folder f
MakeDirs(w, f, dp) ==
    LET w1 == IF w.fs[f][ROOT] = DIR THEN w ELSE [w EXCEPT !.fs[f][ROOT] = DIR]
    IN  IF dp = ROOT THEN [ok |-> TRUE, w |-> w1]
        ELSE IF w1.fs[f][dp] = ABSENT
             THEN [ok |-> TRUE, w |-> [w1 EXCEPT !.fs[f][dp] = DIR]]
        ELSE IF IsDir(w1, f, dp) THEN [ok |-> TRUE, w |-> w1]
        ELSE [ok |-> FALSE, w |-> w1]

\* ------------------------------------------------- utils/filesystem.py
Devices == {1, 2}
OneVolume == [system |-> "Linux", st_dev |-> [f \in AllFolders |-> 1]]

\* os.stat(path).st_dev of an existing path of folder f: the volume of the
\* tree that holds it, the symlink target's when the path is or passes a
\* folder symlink
DevOf(w, f, p) ==
    IF \/ IsLink(w, f, p)
       \/ (p # ROOT /\ Parent(p) # ROOT /\ IsLink(w, f, Parent(p)))
    THEN host.st_dev[Outside]
    ELSE host.st_dev[f]

\* os.path.splitdrive(os.path.abspath(path))[0]: the drive the path is
\* spelled with, symlinks not resolved
DriveOf(f) == host.st_dev[f]

\* is_same_volume(path1, path2) for two existing paths
is_same_volume(w, f1, p1, f2, p2) ==
    IF host.system = "Windows" THEN DriveOf(f1) = DriveOf(f2)
    ELSE DevOf(w, f1, p1) = DevOf(w, f2, p2)

\* ------------------------------------------------------- hardlink_ops.py
\* create_hardlink(source, dest_dir, dest_name): the link is made only when
\* every check passes; each failure is an exception the callers catch.
\* os.link itself fails with OSError (EXDEV) across volumes.
\* create_hardlink that replaces an entry already at the destination
create_hardlink_Replaces(w, sf, sp, f, p) ==
    IF ~Exists(w, sf, sp) THEN [ok |-> FALSE, w |-> w, error |-> "FileNotFoundError"]
    ELSE IF ~(IsFile(Stat(w, sf, sp)) /\ ~IsLink(w, sf, sp))
    THEN [ok |-> FALSE, w |-> w, error |-> "ValueError"]
    ELSE IF ~IsDir(w, f, Parent(p)) THEN [ok |-> FALSE, w |-> w, error |-> "NotADirectoryError"]
    ELSE IF ~is_same_volume(w, sf, sp, f, Parent(p))
    THEN [ok |-> FALSE, w |-> w, error |-> "ValueError"]
    ELSE IF DevOf(w, sf, sp) # DevOf(w, f, Parent(p))
    THEN [ok |-> FALSE, w |-> w, error |-> "OSError"]
    ELSE [ok |-> TRUE, w |-> SetEntry(w, f, p, Stat(w, sf, sp)), error |-> "none"]

create_hardlink(w, sf, sp, f, p) ==
    IF ~Exists(w, sf, sp) THEN [ok |-> FALSE, w |-> w, error |-> "FileNotFoundError"]
    ELSE IF ~(IsFile(Stat(w, sf, sp)) /\ ~IsLink(w, sf, sp))
    THEN [ok |-> FALSE, w |-> w, error |-> "ValueError"]
    ELSE IF ~IsDir(w, f, Parent(p)) THEN [ok |-> FALSE, w |-> w, error |-> "NotADirectoryError"]
    ELSE IF ~is_same_volume(w, sf, sp, f, Parent(p))
    THEN [ok |-> FALSE, w |-> w, error |-> "ValueError"]
    ELSE IF Exists(w, f, p) THEN [ok |-> FALSE, w |-> w, error |-> "FileExistsError"]
    ELSE IF DevOf(w, sf, sp) # DevOf(w, f, Parent(p))
    THEN [ok |-> FALSE, w |-> w, error |-> "OSError"]
    ELSE [ok |-> TRUE, w |-> SetEntry(w, f, p, Stat(w, sf, sp)), error |-> "none"]

\* --------------------------------------------------------------- sync.py
\* _find_root_folder: the first listed folder that contains the path
_find_root_folder(f, folders) ==
    IF \E i \in 1..Len(folders) : folders[i] = f THEN f ELSE Outside

\* SyncFileStep without the skip rule: a destination held by another file is replaced
SyncFileStep_Overwrites(acc, folder, sf, sp) ==
    IF folder = sf THEN acc
    ELSE IF Exists(acc.w, folder, sp) /\ Stat(acc.w, folder, sp) = Stat(acc.w, sf, sp)
    THEN acc
    ELSE LET md == MakeDirs(acc.w, folder, Parent(sp)) IN
         IF ~md.ok THEN [acc EXCEPT !.w = md.w, !.raised = TRUE]
         ELSE [acc EXCEPT !.w = SetEntry(md.w, folder, sp, Stat(acc.w, sf, sp)),
                          !.created = Append(@, <<folder, sp>>)]

\* one turn of the loop over group.folders in sync_file_to_group; acc is the
\* filesystem, the list created so far and whether an exception left the call
SyncFileStep(acc, folder, sf, sp) ==
    IF folder = sf THEN acc
    ELSE IF Exists(acc.w, folder, sp) THEN acc
    ELSE LET md == MakeDirs(acc.w, folder, Parent(sp)) IN
         IF ~md.ok THEN [acc EXCEPT !.w = md.w, !.raised = TRUE]
         ELSE LET ch == create_hardlink(md.w, sf, sp, folder, sp) IN
              IF ch.ok
              THEN [acc EXCEPT !.w = ch.w, !.created = Append(@, <<folder, sp>>)]
              ELSE [acc EXCEPT !.w = md.w]

RECURSIVE SyncFileLoop(_, _, _, _, _)
SyncFileLoop(acc, folders, i, sf, sp) ==
    IF i > Len(folders) \/ acc.raised THEN acc
    ELSE SyncFileLoop(SyncFileStep(acc, folders[i], sf, sp), folders, i + 1, sf, sp)

\* sync_file_to_group without the early return for marker files
sync_file_to_group_LinksMarkers(w, sf, sp, folders) ==
    IF _find_root_folder(sf, folders) = Outside
    THEN [w |-> w, created |-> <<>>, raised |-> FALSE]
    ELSE IF ~Exists(w, sf, sp) THEN [w |-> w, created |-> <<>>, raised |-> TRUE]
    ELSE SyncFileLoop([w |-> w, created |-> <<>>, raised |-> FALSE], folders, 1, sf, sp)

\* sync_file_to_group(source_path, group); raised = an exception left the call
sync_file_to_group(w, sf, sp, folders) ==
    IF Basename(sp) = MIRROR_MARKER THEN [w |-> w, created |-> <<>>, raised |-> FALSE]
    ELSE IF _find_root_folder(sf, folders) = Outside
         THEN [w |-> w, created |-> <<>>, raised |-> FALSE]
    ELSE IF ~Exists(w, sf, sp) THEN [w |-> w, created |-> <<>>, raised |-> TRUE]
    ELSE SyncFileLoop([w |-> w, created |-> <<>>, raised |-> FALSE], folders, 1, sf, sp)

\* the order in which os.walk meets the names of one member folder: the files
\* of the top directory, then those of the real subdirectory
WalkOrder == <<MIRROR_MARKER, "a", "d", "d/a">>

\* os.walk lists p as a file of a directory it visits
WalkedFile(w, f, p) ==
    /\ w.fs[f][ROOT] = DIR
    /\ (Parent(p) # ROOT => w.fs[f][Parent(p)] = DIR)
    /\ IsFile(w.fs[f][p])

\* the first loop of sync_group: unique_files in insertion order
RECURSIVE CollectFiles(_, _, _, _, _)
CollectFiles(w, folders, i, k, uf) ==
    IF i > Len(folders) THEN uf
    ELSE IF k > Len(WalkOrder) THEN CollectFiles(w, folders, i + 1, 1, uf)
    ELSE LET f == folders[i]
             p == WalkOrder[k]
         IN  IF /\ WalkedFile(w, f, p)
                /\ Basename(p) # MIRROR_MARKER
                /\ ~\E j \in 1..Len(uf) : uf[j].ino = w.fs[f][p]
             THEN CollectFiles(w, folders, i, k + 1,
                               Append(uf, [ino |-> w.fs[f][p], f |-> f, p |-> p]))
             ELSE CollectFiles(w, folders, i, k + 1, uf)

\* the names of a member folder's top directory that can be folder symlinks,
\* in the order os.walk lists them
SymlinkNames == <<"a", "d">>

\* the symlink_dirs of one member folder entered into unique_symlinks
RECURSIVE CollectSymlinksIn(_, _, _, _)
CollectSymlinksIn(w, f, k, us) ==
    IF k > Len(SymlinkNames) THEN us
    ELSE LET p == SymlinkNames[k]
             e == Lookup(w, f, p)
         IN  IF IsLnk(e) /\ ~\E j \in 1..Len(us) : us[j].p = p /\ us[j].t = LnkTarget(e)
             THEN CollectSymlinksIn(w, f, k + 1,
                                    Append(us, [p |-> p, t |-> LnkTarget(e), f |-> f]))
             ELSE CollectSymlinksIn(w, f, k + 1, us)

\* the first loop of sync_group: unique_symlinks in insertion order
RECURSIVE CollectSymlinks(_, _, _, _)
CollectSymlinks(w, folders, i, us) ==
    IF i > Len(folders) THEN us
    ELSE CollectSymlinks(w, folders, i + 1, CollectSymlinksIn(w, folders[i], 1, us))

\* LinkFileStep without the identity test: a destination that is already linked is reported
\* as created again
LinkFileStep_ReportsExisting(acc, folder, u) ==
    IF Exists(acc.w, folder, u.p)
    THEN IF Stat(acc.w, folder, u.p) = u.ino /\ folder # u.f
         THEN [acc EXCEPT !.created = Append(@, [dest |-> <<folder, u.p>>,
                                                 src |-> <<u.f, u.p>>])]
         ELSE acc
    ELSE LET md == MakeDirs(acc.w, folder, Parent(u.p)) IN
         IF ~md.ok THEN [acc EXCEPT !.w = md.w, !.raised = TRUE]
         ELSE LET ch == create_hardlink(md.w, u.f, u.p, folder, u.p) IN
              IF ch.ok
              THEN [acc EXCEPT !.w = ch.w,
                               !.created = Append(@, [dest |-> <<folder, u.p>>,
                                                      src |-> <<u.f, u.p>>])]
              ELSE [acc EXCEPT !.w = md.w]

\* one turn of the second loop of sync_group: the unique file u into one
\* folder; os.makedirs is outside the try, so its failure leaves the call
LinkFileStep(acc, folder, u) ==
    IF Exists(acc.w, folder, u.p) THEN acc
    ELSE LET md == MakeDirs(acc.w, folder, Parent(u.p)) IN
         IF ~md.ok THEN [acc EXCEPT !.w = md.w, !.raised = TRUE]
         ELSE LET ch == create_hardlink(md.w, u.f, u.p, folder, u.p) IN
              IF ch.ok
              THEN [acc EXCEPT !.w = ch.w,
                               !.created = Append(@, [dest |-> <<folder, u.p>>,
                                                      src |-> <<u.f, u.p>>])]
              ELSE [acc EXCEPT !.w = md.w]

\* one turn of the third loop of sync_group: the folder symlink u into one folder
LinkSymlinkStep(acc, folder, u) ==
    IF IsLink(acc.w, folder, u.p) \/ Exists(acc.w, folder, u.p) THEN acc
    ELSE LET md == MakeDirs(acc.w, folder, Parent(u.p)) IN
         IF ~md.ok THEN [acc EXCEPT !.w = md.w, !.raised = TRUE]
         ELSE [acc EXCEPT !.w = SetEntry(md.w, folder, u.p, Lnk(u.t)),
                          !.created = Append(@, [dest |-> <<folder, u.p>>,
                                                 src |-> <<u.f, u.p>>])]

\* for each unique entry (outer loop), for each listed folder (inner loop)
RECURSIVE LinkFiles(_, _, _, _, _)
LinkFiles(acc, folders, uf, i, j) ==
    IF i > Len(uf) \/ acc.raised THEN acc
    ELSE IF j > Len(folders) THEN LinkFiles(acc, folders, uf, i + 1, 1)
    ELSE LinkFiles(LinkFileStep(acc, folders[j], uf[i]), folders, uf, i, j + 1)

RECURSIVE LinkSymlinks(_, _, _, _, _)
LinkSymlinks(acc, folders, us, i, j) ==
    IF i > Len(us) \/ acc.raised THEN acc
    ELSE IF j > Len(folders) THEN LinkSymlinks(acc, folders, us, i + 1, 1)
    ELSE LinkSymlinks(LinkSymlinkStep(acc, folders[j], us[i]), folders, us, i, j + 1)

\* sync_group(group)
sync_group(w, folders) ==
    IF Len(folders) < 2 THEN [w |-> w, created |-> <<>>, raised |-> FALSE]
    ELSE LET uf == CollectFiles(w, folders, 1, 1, <<>>)
             us == CollectSymlinks(w, folders, 1, <<>>)
             r1 == LinkFiles([w |-> w, created |-> <<>>, raised |-> FALSE],
                             folders, uf, 1, 1)
         IN  LinkSymlinks(r1, folders, us, 1, 1)

\* DeleteStep without the identity test: the entry is removed whatever its identity
DeleteStep_ByName(acc, folder, ino, p) ==
    IF ~Exists(acc.w, folder, p) THEN acc
    ELSE IF IsFile(Stat(acc.w, folder, p)) /\ IsFile(ino)
         THEN [w |-> SetEntry(acc.w, folder, p, ABSENT),
               deleted |-> Append(acc.deleted, <<folder, p>>)]
         ELSE acc

\* one turn of the loop over group.folders in delete_from_group; os.unlink of
\* a directory fails and is skipped
DeleteStep(acc, folder, ino, p) ==
    IF ~Exists(acc.w, folder, p) THEN acc
    ELSE IF Stat(acc.w, folder, p) = ino /\ IsFile(ino)
         THEN [w |-> SetEntry(acc.w, folder, p, ABSENT),
               deleted |-> Append(acc.deleted, <<folder, p>>)]
         ELSE acc

RECURSIVE DeleteLoop(_, _, _, _, _)
DeleteLoop(acc, folders, i, ino, p) ==
    IF i > Len(folders) THEN acc
    ELSE DeleteLoop(DeleteStep(acc, folders[i], ino, p), folders, i + 1, ino, p)

\* delete_from_group(file_path, group)
delete_from_group(w, f, p, folders) ==
    IF _find_root_folder(f, folders) = Outside THEN [w |-> w, deleted |-> <<>>]
    ELSE IF ~Exists(w, f, p) THEN [w |-> w, deleted |-> <<>>]
    ELSE DeleteLoop([w |-> w, deleted |-> <<>>], folders, 1, Stat(w, f, p), p)

\* =========================================================== state machine
\* the mirror group of the sync engine: MirrorGroup.folders, in list order
GroupFolders == <<1, 2, 3>>

\* the tree of one member folder as it can be found before a call: the folder
\* may be missing; an existing folder carries its marker
TreeShapes ==
    {s \in [root : {ABSENT, DIR},
            a : {ABSENT} \cup Inodes,
            d : {ABSENT, DIR} \cup Inodes \cup {Lnk(x) : x \in Targets},
            da : {ABSENT} \cup Inodes] :
        /\ (s.root = ABSENT => s.a = ABSENT /\ s.d = ABSENT)
        /\ (s.d # DIR => s.da = ABSENT)}

FolderTree(f, s) ==
    [p \in Paths \cup {ROOT} |->
        IF p = ROOT THEN s.root
        ELSE IF p = MIRROR_MARKER THEN (IF s.root = DIR THEN MarkerInode(f) ELSE ABSENT)
        ELSE IF p = "a" THEN s.a
        ELSE IF p = "d" THEN s.d
        ELSE s.da]

\* a directory outside every mirror group, holding one file
OutsideTree ==
    [p \in Paths \cup {ROOT} |-> IF p = ROOT THEN DIR ELSE IF p = "a" THEN 1 ELSE ABSENT]

\* a physical directory entry: a name of a member folder, or a name of the
\* directory a folder symlink points to
FileSlots ==
    <<<<"fs", 1, "a">>, <<"fs", 1, "d">>, <<"fs", 1, "d/a">>,
      <<"fs", 2, "a">>, <<"fs", 2, "d">>, <<"fs", 2, "d/a">>,
      <<"fs", 3, "a">>, <<"fs", 3, "d">>, <<"fs", 3, "d/a">>,
      <<"tgt", 1, "a">>, <<"tgt", 2, "a">>>>

SlotValue(w, s) == IF s[1] = "fs" THEN w.fs[s[2]][s[3]] ELSE w.tgt[s[2]][s[3]]

\* the physical entry that the path p of folder g names
SlotOf(w, g, p) ==
    IF p # ROOT /\ Parent(p) # ROOT /\ IsLnk(w.fs[g][Parent(p)])
    THEN <<"tgt", LnkTarget(w.fs[g][Parent(p)]), Basename(p)>>
    ELSE <<"fs", g, p>>

\* inodes are numbered by first use in the order of FileSlots (two trees that
\* differ by renaming inodes are the same tree)
FirstUse(w, i) ==
    LET at == {k \in 1..Len(FileSlots) : SlotValue(w, FileSlots[k]) = i}
    IN  IF at = {} THEN Len(FileSlots) + 1
        ELSE CHOOSE k \in at : \A m \in at : k <= m

FileCount(w) ==
    Cardinality({k \in 1..Len(FileSlots) : IsFile(SlotValue(w, FileSlots[k]))})

InodesNumberedByFirstUse(w) ==
    \A i \in Inodes : i > 1 /\ FirstUse(w, i) <= Len(FileSlots)
                        => FirstUse(w, i - 1) < FirstUse(w, i)

\* the paths every listed folder holds as the same regular file
InAllFolders(w) ==
    {p \in Paths : /\ Basename(p) # MIRROR_MARKER
                   /\ IsFile(Stat(w, GroupFolders[1], p))
                   /\ \A i \in 1..Len(GroupFolders) :
                         Stat(w, GroupFolders[i], p) = Stat(w, GroupFolders[1], p)}

NoCall(w) ==
    [op |-> "none", f |-> Outside, p |-> ROOT, pre |-> w, created |-> <<>>,
     deleted |-> <<>>, raised |-> FALSE, afterSync |-> FALSE, prevCreated |-> 0,
     known |-> {}]

\* the trees before a call: at most maxFiles regular files in all
InitialWorlds(targetContents, maxFiles) ==
    {w \in [fs : {[f \in AllFolders |->
                     IF f = Outside THEN OutsideTree ELSE FolderTree(f, s[f])] :
                  s \in [Folders -> TreeShapes]},
            tgt : [Targets -> [TargetNames -> targetContents]]] :
        FileCount(w) <= maxFiles /\ InodesNumberedByFirstUse(w)}

\* ------------------------------------------------------------ the watcher
\* debounce_seconds and the shortest re-arm delay, in ticks of 0.05 s
debounce_seconds == 2
MIN_DELAY == 1

\* the paths the event source reports: two files and a directory of a member
\* folder, and a file outside the group
GroupFiles == {<<1, "a">>, <<1, "d/a">>}
EventPaths == GroupFiles \cup {<<1, "d">>, <<Outside, "a">>}
\* and the copies of a file in the other member folders, which the observer
\* reports when the watcher removes them
\* and the marker files that create_group writes into member folders
MarkerEvents == {<<1, MIRROR_MARKER>>, <<2, MIRROR_MARKER>>}
WatchedPaths ==
    EventPaths \cup {<<2, "a">>, <<3, "a">>, <<2, "d/a">>, <<3, "d/a">>} \cup MarkerEvents

\* the threading.Timer objects the handler can hold
TimerIds == 1..MaxEvents
NoTimer == 0

\* find_group_for_path: the registry holds at most one group, over GroupFolders
find_group_for_path(reg, ep) ==
    reg.registered /\ \E i \in 1..Len(GroupFolders) : GroupFolders[i] = ep[1]

\* a pending table: path -> scheduled time, in insertion order
Keys(tab) == {tab[i].path : i \in 1..Len(tab)}
DueOf(tab, ep) == LET i == CHOOSE i \in 1..Len(tab) : tab[i].path = ep IN tab[i].due

\* the assignment  self._pending[src_path] = time.time() + self.debounce_seconds
\* that keeps the due time of the first notification
Schedule_KeepsFirstDue(tab, ep, t) ==
    IF ep \in Keys(tab) THEN tab
    ELSE Append(tab, [path |-> ep, due |-> t + debounce_seconds])

Schedule(tab, ep, t) ==
    IF ep \in Keys(tab)
    THEN [i \in 1..Len(tab) |->
             IF tab[i].path = ep THEN [path |-> ep, due |-> t + debounce_seconds]
             ELSE tab[i]]
    ELSE Append(tab, [path |-> ep, due |-> t + debounce_seconds])

\* the test  now >= scheduled_time  that takes every pending path
IsDue_Always(t, scheduled_time) == TRUE

IsDue(t, scheduled_time) == t >= scheduled_time

DuePaths(tab, t) ==
    LET due == SelectSeq(tab, LAMBDA e : IsDue(t, e.due))
    IN  [i \in 1..Len(due) |-> due[i].path]
Remaining(tab, t) == SelectSeq(tab, LAMBDA e : ~IsDue(t, e.due))
MinDue(tab) ==
    CHOOSE d \in {tab[i].due : i \in 1..Len(tab)} :
        \A i \in 1..Len(tab) : d <= tab[i].due
Max(a, b) == IF a >= b THEN a ELSE b
Min(a, b) == IF a <= b THEN a ELSE b

\* a thread that has finished (or was never started)
DeadThread ==
    [pc |-> "dead", fn |-> "none", deadline |-> 0, now |-> 0, todo |-> <<>>,
     deleted |-> <<>>]

\* Timer.is_alive(): started and its function has not returned yet
is_alive(ths, id) == ths[id].pc # "dead"

\* the Timer object a  threading.Timer(...)  call makes
NewTimerId(ths, held) ==
    CHOOSE id \in TimerIds :
        /\ ths[id].pc = "dead" /\ id \notin held
        /\ \A k \in TimerIds : (ths[k].pc = "dead" /\ k \notin held) => id <= k
TimerFree(ths, held) == \E id \in TimerIds : ths[id].pc = "dead" /\ id \notin held

\* Timer(interval, fn).start() at time t; beyond MaxTime the clock only says
\* "MaxTime or later"
StartTimer(ths, id, fn, t, interval) ==
    [ths EXCEPT ![id] = [pc |-> "waiting", fn |-> fn,
                         deadline |-> Min(t + interval, MaxTime),
                         now |-> 0, todo |-> <<>>, deleted |-> <<>>]]

\* the accepting test shared by on_created and on_deleted, without the
\* auto-sync flag
Accepts_IgnoresSyncFlag(reg, ep, is_directory) ==
    ~is_directory /\ find_group_for_path(reg, ep)

\* on_created / on_deleted go on to schedule the path
Accepts(reg, ep, is_directory) ==
    ~is_directory /\ find_group_for_path(reg, ep) /\ reg.sync_enabled

\* _flush / _flush_deletes look the group up again before acting
GroupOn(reg, ep) == find_group_for_path(reg, ep) /\ reg.sync_enabled

\* PropagateStep that does not report what it removed
PropagateStep_Unreported(acc, folder, sf, p) ==
    IF folder = sf \/ ~Exists(acc.w, folder, p) THEN acc
    ELSE [acc EXCEPT !.w = SetEntry(acc.w, folder, p, ABSENT)]

\* propagate_delete_to_group: the source is already gone; the entry at the
\* same relative path is removed from every other member folder
PropagateStep(acc, folder, sf, p) ==
    IF folder = sf \/ ~Exists(acc.w, folder, p) THEN acc
    ELSE [w |-> SetEntry(acc.w, folder, p, ABSENT),
          deleted |-> Append(acc.deleted, <<folder, p>>)]

RECURSIVE PropagateLoop(_, _, _, _, _)
PropagateLoop(acc, folders, i, sf, p) ==
    IF i > Len(folders) THEN acc
    ELSE PropagateLoop(PropagateStep(acc, folders[i], sf, p), folders, i + 1, sf, p)

propagate_delete_to_group(w, sf, p, folders) ==
    IF _find_root_folder(sf, folders) = Outside THEN [w |-> w, deleted |-> <<>>]
    ELSE PropagateLoop([w |-> w, deleted |-> <<>>], folders, 1, sf, p)

\* what the event source and the callbacks have seen of a file of the group: create
\* notifications so far (clean: each one accepted and less than
\* debounce_seconds after the one before, and no flush dropped the path),
\* when the last one came, when the handler last scheduled a sync (seen) and
\* a delete propagation (dSeen), sync_file_to_group calls, on_sync callbacks
NoHistory ==
    [n |-> 0, clean |-> TRUE, lastAt |-> 0, seen |-> 0, dSeen |-> 0,
     calls |-> 0, cbs |-> 0]

\* the last step of the handler or of a flush: what it was about, and whether
\* it went on to schedule (on_created, on_deleted) or to act (a flush)
NoStep == [op |-> "none", path |-> <<Outside, "a">>, accepted |-> FALSE]

\* a handler just constructed, with n notifications to come
WatcherIdle(n) ==
    /\ now = 0
    /\ registry = [registered |-> TRUE, sync_enabled |-> TRUE]
    /\ _pending = <<>>
    /\ _pending_deletes = <<>>
    /\ _suppressed_deletes = {}
    /\ _timer = NoTimer
    /\ _delete_timer = NoTimer
    /\ threads = [id \in TimerIds |-> DeadThread]
    /\ budget = n
    /\ hist = [ep \in WatchedPaths |-> NoHistory]
    /\ wlast = NoStep


\* MirrorGroupWatcher before start() and after it: the observer thread, the
\* delete notifications it has still to deliver (queue), and the paths whose
\* entry the watcher's own propagation removed last (own); the new entries
\* (links the watcher made, files a user created) for which a create
\* notification is still to come (links);
\* stopped: whether stop() has returned, and the paths that were in the
\* pending tables then
NoObserver ==
    [running |-> FALSE, queue |-> {}, own |-> {}, links |-> {},
     stopped |-> FALSE, pending_syncs |-> {}, pending_deletes |-> {}]
ObserverIdle == observer = NoObserver
ObserverStarted == observer = [NoObserver EXCEPT !.running = TRUE]

\* the observer notices the removal of the entries at paths eps: a running
\* observer queues one delete notification for each
Removed(obs, eps, by_watcher) ==
    [obs EXCEPT !.queue = IF obs.running THEN @ \cup eps ELSE @,
                !.own = IF by_watcher THEN @ \cup eps ELSE @ \ eps]

\* the observer notices the new entries at paths eps
LinksMade(obs, eps) ==
    [obs EXCEPT !.links = IF obs.running THEN @ \cup eps ELSE @]

\* ------------------------------------------------------- mirror_groups.py
\* a folder path as a caller spells it: <<folder, 0>> is the normalized
\* absolute path, <<folder, 1>> the same path with a trailing separator
Spellings == Folders \X {0, 1}
\* <<folder, 2>> is the normalized path of the folder's subdirectory "d"
SubDir(f) == <<f, 2>>
abspath(p) == IF p[2] = 1 THEN <<p[1], 0>> ELSE p
normpath(p) == IF p[2] = 1 THEN <<p[1], 0>> ELSE p

\* a name is a list of words: a folder's basename, a folder path spelled
\* with its trailing separator, or a word the user typed
\* os.path.basename(f) or f
basename_or(p) == IF p[2] = 0 THEN <<"basename", p[1]>> ELSE <<"path", p[1]>>
EmptyName == <<>>
Typed(n) == <<<<"typed", n>>>>

\* an optional argument or result: None, or one value
None == {}
Some(v) == {v}
Value(o) == CHOOSE v \in o : TRUE

\* no group id (None where an id is expected), and the empty timestamp ""
NoId == 0
NoTime == 0

GroupFields == {"id", "name", "folders", "sync_enabled", "created_at", "modified_at"}

\* MirrorGroup.auto_name
auto_name(folders) ==
    IF folders = <<>> THEN <<<<"(empty)", 0>>>>
    ELSE [i \in 1..Len(folders) |-> basename_or(folders[i])]

\* the group table is a dict keyed by id, in insertion order
IndexOf(tab, id) ==
    IF \E i \in 1..Len(tab) : tab[i].id = id
    THEN CHOOSE i \in 1..Len(tab) : tab[i].id = id
    ELSE 0
HasGroup(tab, id) == IndexOf(tab, id) # 0
GetGroup(tab, id) == tab[IndexOf(tab, id)]
PutGroup(tab, g) ==
    IF HasGroup(tab, g.id) THEN [tab EXCEPT ![IndexOf(tab, g.id)] = g]
    ELSE Append(tab, g)
DelGroup(tab, id) == SelectSeq(tab, LAMBDA g : g.id # id)

\* dataclasses.asdict(g): a JSON object, keys to values
asdict(g) == [k \in GroupFields |-> g[k]]

\* entry.get(key, default) on a JSON object
JsonGet(entry, key, default) ==
    IF key \in DOMAIN entry THEN entry[key] ELSE default

\* the registry file: missing, text that is not JSON, a JSON value that is
\* not an object, an object without "groups", an object whose "groups" is a
\* scalar (null or a number), or an object whose "groups" is a list; an item
\* of the list is an object or a string
MissingFile == [kind |-> "missing"]
StringItem == [k \in {"$string"} |-> "x"]
IsObjectEntry(e) == "$string" \notin DOMAIN e

\* save(): json.dump({"groups": [asdict(g) ...]})
save(tab) ==
    [kind |-> "object", groups |-> [i \in 1..Len(tab) |-> asdict(tab[i])]]

\* the loop of load() over data.get("groups", []); an item that is not an
\* object makes entry.get raise AttributeError, which load does not catch
RECURSIVE LoadEntries(_, _, _)
LoadEntries(entries, i, acc) ==
    IF i > Len(entries) THEN acc
    ELSE IF ~IsObjectEntry(entries[i]) THEN [acc EXCEPT !.raised = TRUE]
    ELSE LET e == entries[i]
             \* the default id is a fresh uuid4; no document here omits the id
             g == [id |-> JsonGet(e, "id", NoId),
                   name |-> JsonGet(e, "name", EmptyName),
                   folders |-> JsonGet(e, "folders", <<>>),
                   sync_enabled |-> JsonGet(e, "sync_enabled", TRUE),
                   created_at |-> JsonGet(e, "created_at", NoTime),
                   modified_at |-> JsonGet(e, "modified_at", NoTime)]
         IN  LoadEntries(entries, i + 1, [acc EXCEPT !.groups = PutGroup(@, g)])

\* MirrorGroupRegistry.load(): the table it leaves, and whether an exception
\* left the call
load(f) ==
    IF f.kind = "missing" THEN [groups |-> <<>>, raised |-> FALSE]
    ELSE IF f.kind = "not_json" THEN [groups |-> <<>>, raised |-> FALSE]
    ELSE IF f.kind = "not_object" THEN [groups |-> <<>>, raised |-> TRUE]
    ELSE IF f.kind = "object_without_groups" THEN [groups |-> <<>>, raised |-> FALSE]
    ELSE IF f.kind = "object_scalar_groups" THEN [groups |-> <<>>, raised |-> TRUE]
    ELSE LoadEntries(f.groups, 1, [groups |-> <<>>, raised |-> FALSE])

\* the registry of the synchronisation and watcher worlds: the one group over
\* GroupFolders, saved, with its marker in every member folder that exists
TheGroup ==
    [id |-> 1, name |-> auto_name([i \in 1..Len(GroupFolders) |-> <<GroupFolders[i], 0>>]),
     folders |-> [i \in 1..Len(GroupFolders) |-> <<GroupFolders[i], 0>>],
     sync_enabled |-> TRUE, created_at |-> 0, modified_at |-> 0]
RegistryIdle ==
    /\ _groups = <<TheGroup>>
    /\ file = save(_groups)
    /\ markers = [f \in Folders |-> IF fs[f][MIRROR_MARKER] # ABSENT THEN 1 ELSE NoId]
    /\ rlast = [op |-> "none", args |-> <<>>, ret |-> None]
    /\ uuid = 2
    /\ clock = 1
\* the sync engine starts with empty symlink targets (syncs fill them)
Init ==
    /\ \E w \in InitialWorlds({ABSENT}, MaxFiles) : fs = w.fs /\ tgt = w.tgt
    /\ last = NoCall([fs |-> fs, tgt |-> tgt])
    /\ synced = {}
    /\ host = OneVolume
    /\ WatcherIdle(0)
    /\ ObserverIdle
    /\ RegistryIdle

\* explicit deletion starts from targets that may already hold files
InitDelete ==
    /\ \E w \in InitialWorlds({ABSENT} \cup Inodes, MaxDeleteFiles) : fs = w.fs /\ tgt = w.tgt
    /\ last = NoCall([fs |-> fs, tgt |-> tgt])
    /\ synced = {}
    /\ host = OneVolume
    /\ WatcherIdle(0)
    /\ ObserverIdle
    /\ RegistryIdle

\* "Sync Now": one full pass over the group
SyncGroup ==
    LET r == sync_group(World, GroupFolders) IN
    /\ fs' = r.w.fs
    /\ tgt' = r.w.tgt
    /\ last' = [op |-> "sync_group", f |-> Outside, p |-> ROOT, pre |-> World,
                created |-> [i \in 1..Len(r.created) |-> r.created[i].dest],
                deleted |-> <<>>, raised |-> r.raised,
                afterSync |-> (last.op = "sync_group"),
                prevCreated |-> Len(last.created), known |-> synced]
    /\ synced' = InAllFolders(r.w)
    /\ UNCHANGED <<wvars, observer, rvars, host>>

\* the watcher's call for one created file (a regular file, or already gone)
SyncFileToGroup(f, p) ==
    /\ Stat(World, f, p) # DIR
    /\ LET r == sync_file_to_group(World, f, p, GroupFolders) IN
       /\ fs' = r.w.fs
       /\ tgt' = r.w.tgt
       /\ last' = [op |-> "sync_file_to_group", f |-> f, p |-> p, pre |-> World,
                   created |-> r.created, deleted |-> <<>>, raised |-> r.raised,
                   afterSync |-> (last.op = "sync_file_to_group" /\ last.f = f
                                  /\ last.p = p /\ ~last.raised),
                   prevCreated |-> 0, known |-> {}]
    /\ UNCHANGED <<synced, wvars, observer, rvars, host>>

\* the file browser's "delete from mirror group" for one selected file
DeleteFromGroup(f, p) ==
    /\ Stat(World, f, p) # DIR
    /\ Basename(p) # MIRROR_MARKER
    /\ LET r == delete_from_group(World, f, p, GroupFolders) IN
       /\ fs' = r.w.fs
       /\ tgt' = r.w.tgt
       /\ last' = [op |-> "delete_from_group", f |-> f, p |-> p, pre |-> World,
                   created |-> <<>>, deleted |-> r.deleted, raised |-> FALSE,
                   afterSync |-> FALSE, prevCreated |-> 0, known |-> {}]
    /\ UNCHANGED <<synced, wvars, observer, rvars, host>>

\* the user removes one file of a member folder behind the program's back
UserDelete(f, p) ==
    /\ WalkedFile(World, f, p)
    /\ Basename(p) # MIRROR_MARKER
    /\ fs' = [fs EXCEPT ![f][p] = ABSENT]
    /\ UNCHANGED <<tgt, synced, wvars, observer, rvars, host>>
    /\ last' = NoCall([fs |-> fs', tgt |-> tgt])

\* ------------------------------------------------------ the watcher's steps
EngineIdle == UNCHANGED <<fs, tgt, last, synced, rvars, host>>

Hist(ep, h) == [hist EXCEPT ![ep] = h]

\* watchdog calls on_created(event) for the path ep
OnCreated(ep, is_directory) ==
    /\ budget > 0
    /\ now + debounce_seconds <= MaxTime
    /\ budget' = budget - 1
    /\ LET ok == Accepts(registry, ep, is_directory)
           h == hist[ep]
       IN
       /\ IF ok
          THEN /\ _pending' = Schedule(_pending, ep, now)
               /\ IF _timer = NoTimer \/ ~is_alive(threads, _timer)
                  THEN /\ TimerFree(threads, {_timer, _delete_timer})
                       /\ LET id == NewTimerId(threads, {_timer, _delete_timer}) IN
                          /\ _timer' = id
                          /\ threads' = StartTimer(threads, id, "_flush", now,
                                                   debounce_seconds)
                  ELSE UNCHANGED <<_timer, threads>>
          ELSE UNCHANGED <<_pending, _timer, threads>>
       /\ hist' = IF ep \notin GroupFiles THEN hist ELSE
                  Hist(ep, [h EXCEPT
                     !.n = h.n + 1,
                     !.clean = /\ h.clean
                               /\ ok
                               /\ (h.n = 0 \/ now < h.lastAt + debounce_seconds),
                     !.lastAt = now,
                     !.seen = IF ok THEN now ELSE h.seen])
       /\ wlast' = [op |-> "on_created", path |-> ep, accepted |-> ok]
    /\ observer' = [observer EXCEPT !.links = @ \ {ep}]
    /\ UNCHANGED <<now, registry, _pending_deletes, _suppressed_deletes, _delete_timer>>
    /\ EngineIdle

\* watchdog calls on_deleted(event) for the path ep
OnDeleted(ep, is_directory) ==
    /\ budget > 0
    /\ now + debounce_seconds <= MaxTime
    /\ budget' = budget - 1
    /\ LET suppressed == ~is_directory /\ ep \in _suppressed_deletes
           ok == ~suppressed /\ Accepts(registry, ep, is_directory)
       IN
       /\ _suppressed_deletes' =
             IF suppressed THEN _suppressed_deletes \ {ep} ELSE _suppressed_deletes
       /\ IF ok
          THEN /\ _pending_deletes' = Schedule(_pending_deletes, ep, now)
               /\ IF _delete_timer = NoTimer \/ ~is_alive(threads, _delete_timer)
                  THEN /\ TimerFree(threads, {_timer, _delete_timer})
                       /\ LET id == NewTimerId(threads, {_timer, _delete_timer}) IN
                          /\ _delete_timer' = id
                          /\ threads' = StartTimer(threads, id, "_flush_deletes", now,
                                                   debounce_seconds)
                  ELSE UNCHANGED <<_delete_timer, threads>>
          ELSE UNCHANGED <<_pending_deletes, _delete_timer, threads>>
       /\ hist' = IF ok THEN Hist(ep, [hist[ep] EXCEPT !.dSeen = now]) ELSE hist
       /\ wlast' = [op |-> "on_deleted", path |-> ep, accepted |-> ok]
    /\ observer' = [observer EXCEPT !.queue = @ \ {ep}]
    /\ UNCHANGED <<now, registry, _pending, _timer>>
    /\ EngineIdle

\* a timer expires and its thread enters _flush / _flush_deletes:
\* now = time.time()
TimerFires(id) ==
    /\ threads[id].pc = "waiting"
    /\ now >= threads[id].deadline
    /\ threads' = [threads EXCEPT ![id].pc = "started", ![id].now = now,
                                  ![id].deadline = 0]
    /\ UNCHANGED <<now, registry, _pending, _pending_deletes, _suppressed_deletes,
                   _timer, _delete_timer, budget, hist, wlast, observer>>
    /\ EngineIdle

\* after the locked section the thread goes on with its list, or returns
Worker(fn, todo) ==
    IF todo = <<>> THEN DeadThread
    ELSE [pc |-> "working", fn |-> fn, deadline |-> 0, now |-> 0, todo |-> todo,
          deleted |-> <<>>]

\* _flush that never re-arms the timer
FlushSelect_NoRearm(id) ==
    /\ threads[id].pc = "started"
    /\ threads[id].fn = "_flush"
    /\ LET t == threads[id].now
           to_sync == DuePaths(_pending, t)
           remaining == Remaining(_pending, t)
           todo == [i \in 1..Len(to_sync) |->
                      [path |-> to_sync[i], seen |-> hist[to_sync[i]].seen]]
       IN
       /\ _pending' = remaining
       /\ _timer' = NoTimer
       /\ threads' = [threads EXCEPT ![id] = Worker("_flush", todo)]
    /\ UNCHANGED <<now, registry, _pending_deletes, _suppressed_deletes,
                   _delete_timer, budget, hist, wlast, observer>>
    /\ EngineIdle

\* _flush, the locked section: due paths leave the table, the timer is re-armed
FlushSelect(id) ==
    /\ threads[id].pc = "started"
    /\ threads[id].fn = "_flush"
    /\ LET t == threads[id].now
           to_sync == DuePaths(_pending, t)
           remaining == Remaining(_pending, t)
           todo == [i \in 1..Len(to_sync) |->
                      [path |-> to_sync[i], seen |-> hist[to_sync[i]].seen]]
       IN
       /\ _pending' = remaining
       /\ IF remaining # <<>>
          THEN /\ TimerFree(threads, {_timer, _delete_timer})
               /\ LET nid == NewTimerId(threads, {_timer, _delete_timer}) IN
                  /\ _timer' = nid
                  /\ threads' = [StartTimer(threads, nid, "_flush", now,
                                            Max(MinDue(remaining) - t, MIN_DELAY))
                                    EXCEPT ![id] = Worker("_flush", todo)]
          ELSE /\ _timer' = NoTimer
               /\ threads' = [threads EXCEPT ![id] = Worker("_flush", todo)]
    /\ UNCHANGED <<now, registry, _pending_deletes, _suppressed_deletes,
                   _delete_timer, budget, hist, wlast, observer>>
    /\ EngineIdle

\* _flush_deletes, the locked section
FlushDeletesSelect(id) ==
    /\ threads[id].pc = "started"
    /\ threads[id].fn = "_flush_deletes"
    /\ LET t == threads[id].now
           to_delete == DuePaths(_pending_deletes, t)
           remaining == Remaining(_pending_deletes, t)
           todo == [i \in 1..Len(to_delete) |->
                      [path |-> to_delete[i], seen |-> hist[to_delete[i]].dSeen]]
       IN
       /\ _pending_deletes' = remaining
       /\ IF remaining # <<>>
          THEN /\ TimerFree(threads, {_timer, _delete_timer})
               /\ LET nid == NewTimerId(threads, {_timer, _delete_timer}) IN
                  /\ _delete_timer' = nid
                  /\ threads' = [StartTimer(threads, nid, "_flush_deletes", now,
                                            Max(MinDue(remaining) - t, MIN_DELAY))
                                    EXCEPT ![id] = Worker("_flush_deletes", todo)]
          ELSE /\ _delete_timer' = NoTimer
               /\ threads' = [threads EXCEPT ![id] = Worker("_flush_deletes", todo)]
    /\ UNCHANGED <<now, registry, _pending, _suppressed_deletes, _timer, budget,
                   hist, wlast, observer>>
    /\ EngineIdle

\* _flush, outside the lock: one turn of the loop over to_sync; the links are
\* on disk, and the observer has seen them, when sync_file_to_group returns
FlushSync(id) ==
    /\ threads[id].pc = "working"
    /\ threads[id].fn = "_flush"
    /\ LET path == Head(threads[id].todo).path
           h == hist[path]
           go == Exists(World, path[1], path[2]) /\ GroupOn(registry, path)
           r == sync_file_to_group(World, path[1], path[2], GroupFolders)
           on_sync == go /\ ~r.raised /\ r.created # <<>>
       IN
       /\ fs' = IF go THEN r.w.fs ELSE fs
       /\ tgt' = IF go THEN r.w.tgt ELSE tgt
       /\ hist' = Hist(path, [h EXCEPT
                     !.calls = Min(h.calls + (IF go THEN 1 ELSE 0), 2),
                     !.clean = h.clean /\ go,
                     !.cbs = Min(h.cbs + (IF on_sync THEN 1 ELSE 0), 2)])
       /\ wlast' = [op |-> "sync", path |-> path, accepted |-> go]
       /\ observer' = IF go THEN LinksMade(observer, {r.created[i] : i \in 1..Len(r.created)})
                      ELSE observer
       /\ threads' = [threads EXCEPT ![id] = Worker("_flush", Tail(threads[id].todo))]
    /\ UNCHANGED <<now, registry, _pending, _pending_deletes, _suppressed_deletes,
                   _timer, _delete_timer, budget, last, synced, rvars, host>>

\* _flush_deletes, outside the lock: one turn of the loop over to_delete, up
\* to the return of propagate_delete_to_group; the removals are on disk, and
\* the observer has seen them, before the thread asks for the lock again
FlushDelete(id) ==
    /\ threads[id].pc = "working"
    /\ threads[id].fn = "_flush_deletes"
    /\ LET path == Head(threads[id].todo).path
           go == GroupOn(registry, path)
           r == propagate_delete_to_group(World, path[1], path[2], GroupFolders)
           deleted == IF go THEN r.deleted ELSE <<>>
       IN
       /\ fs' = IF go THEN r.w.fs ELSE fs
       /\ tgt' = IF go THEN r.w.tgt ELSE tgt
       /\ observer' = Removed(observer, {deleted[i] : i \in 1..Len(deleted)}, TRUE)
       /\ wlast' = [op |-> "delete", path |-> path, accepted |-> go]
       /\ threads' = [threads EXCEPT
                        ![id] = IF deleted # <<>>
                                THEN [@ EXCEPT !.pc = "suppressing", !.deleted = deleted]
                                ELSE Worker("_flush_deletes", Tail(@.todo))]
    /\ UNCHANGED <<now, registry, _pending, _pending_deletes, _suppressed_deletes,
                   _timer, _delete_timer, budget, hist, last, synced, rvars, host>>

\* _flush_deletes, the rest of the turn:
\* with self._lock: self._suppressed_deletes.update(deleted)
FlushSuppress(id) ==
    /\ threads[id].pc = "suppressing"
    /\ _suppressed_deletes' =
          _suppressed_deletes
             \cup {threads[id].deleted[i] : i \in 1..Len(threads[id].deleted)}
    /\ threads' = [threads EXCEPT ![id] = Worker("_flush_deletes", Tail(@.todo))]
    /\ UNCHANGED <<now, registry, _pending, _pending_deletes, _timer, _delete_timer,
                   budget, hist, wlast, observer>>
    /\ EngineIdle

\* a user removes a file of a watched member folder
WatchedUnlink(ep) ==
    /\ IsFile(Stat(World, ep[1], ep[2]))
    /\ Basename(ep[2]) # MIRROR_MARKER
    /\ LET w == SetEntry(World, ep[1], ep[2], ABSENT) IN fs' = w.fs /\ tgt' = w.tgt
    /\ observer' = Removed(observer, {ep}, FALSE)
    /\ UNCHANGED <<last, synced, rvars, wvars, host>>

\* time passes, as long as a timer or a flush is there to notice
Tick ==
    /\ now < MaxTime
    /\ \E id \in TimerIds : is_alive(threads, id)
    /\ now' = now + 1
    /\ UNCHANGED <<registry, _pending, _pending_deletes, _suppressed_deletes,
                   _timer, _delete_timer, threads, budget, hist, wlast, observer>>
    /\ EngineIdle

\* the foreground switches the group's auto-sync flag: update_group
UpdateGroup(sync_enabled) ==
    /\ registry.registered
    /\ registry.sync_enabled # sync_enabled
    /\ registry' = [registry EXCEPT !.sync_enabled = sync_enabled]
    /\ UNCHANGED <<now, _pending, _pending_deletes, _suppressed_deletes,
                   _timer, _delete_timer, threads, budget, hist, wlast, observer>>
    /\ EngineIdle

\* the foreground removes the group: delete_group takes the markers away
DeleteGroup ==
    /\ registry.registered
    /\ registry' = [registry EXCEPT !.registered = FALSE]
    /\ fs' = [f \in AllFolders |->
                IF f \in Folders /\ fs[f][ROOT] = DIR
                THEN [fs[f] EXCEPT ![MIRROR_MARKER] = ABSENT] ELSE fs[f]]
    /\ UNCHANGED <<now, _pending, _pending_deletes, _suppressed_deletes,
                   _timer, _delete_timer, threads, budget, hist, wlast, observer>>
    /\ UNCHANGED <<tgt, last, synced, rvars, host>>

\* full passes, with the user deleting files between them
NextSyncGroup ==
    \/ SyncGroup
    \/ \E f \in Folders, p \in Paths : UserDelete(f, p)

SpecSyncGroup == Init /\ [][NextSyncGroup]_vars

\* the sync engine: full passes and incremental syncs of single files
\* (a source outside the group is answered before its path is looked at,
\* sync.py:43-45: the calls name the files that exist there)
NextSync ==
    \/ SyncGroup
    \/ \E f \in Folders, p \in Paths : SyncFileToGroup(f, p)
    \/ \E p \in {q \in Paths : OutsideTree[q] # ABSENT} : SyncFileToGroup(Outside, p)

\* the two symlink targets are alike when the engine starts (both empty):
\* they are numbered in the order of the folders that point to them
TargetsNumberedByFirstUse ==
    \A f \in Folders :
        fs[f]["d"] = Lnk(2) => \E g \in Folders : g < f /\ fs[g]["d"] = Lnk(1)
InitSync == Init /\ TargetsNumberedByFirstUse

SpecSync == InitSync /\ [][NextSync]_vars

\* explicit deletions of single files
NextDelete == \E f \in AllFolders, p \in Paths : DeleteFromGroup(f, p)

SpecDelete == InitDelete /\ [][NextDelete]_vars

\* the debounce is watched over one filesystem: the first member folder holds
\* two files, the other two are empty
DebounceWorld ==
    [fs |-> [f \in AllFolders |->
               IF f = Outside THEN OutsideTree
               ELSE FolderTree(f, IF f = 1
                                  THEN [root |-> DIR, a |-> 1, d |-> DIR, da |-> 2]
                                  ELSE [root |-> DIR, a |-> ABSENT, d |-> ABSENT,
                                        da |-> ABSENT])],
     tgt |-> [t \in Targets |-> [n \in TargetNames |-> ABSENT]]]

InitDebounce ==
    /\ fs = DebounceWorld.fs
    /\ tgt = DebounceWorld.tgt
    /\ last = NoCall(DebounceWorld)
    /\ synced = {}
    /\ host = OneVolume
    /\ WatcherIdle(MaxEvents)
    /\ ObserverStarted
    /\ RegistryIdle

\* create and delete notifications for files of an auto-synced group
NextDebounce ==
    \/ \E ep \in GroupFiles : OnCreated(ep, FALSE)
    \/ \E ep \in GroupFiles : OnDeleted(ep, FALSE)
    \/ \E id \in TimerIds : TimerFires(id)
    \/ \E id \in TimerIds : FlushSelect(id)
    \/ \E id \in TimerIds : FlushDeletesSelect(id)
    \/ \E id \in TimerIds : FlushSync(id)
    \/ \E id \in TimerIds : FlushDelete(id)
    \/ \E id \in TimerIds : FlushSuppress(id)
    \/ Tick

SpecDebounce == InitDebounce /\ [][NextDebounce]_vars

\* every kind of notification, and the foreground changing the registry
NextWatcher ==
    \/ \E ep \in EventPaths : OnCreated(ep, ep[2] = "d")
    \/ \E ep \in EventPaths : OnDeleted(ep, ep[2] = "d")
    \/ \E id \in TimerIds : TimerFires(id)
    \/ \E id \in TimerIds : FlushSelect(id)
    \/ \E id \in TimerIds : FlushDeletesSelect(id)
    \/ \E id \in TimerIds : FlushSync(id)
    \/ \E id \in TimerIds : FlushDelete(id)
    \/ \E id \in TimerIds : FlushSuppress(id)
    \/ Tick
    \/ \E b \in BOOLEAN : UpdateGroup(b)
    \/ DeleteGroup

SpecWatcher == InitDebounce /\ [][NextWatcher]_vars

\* auto-sync is watched over the filesystems in which the first member folder
\* holds d/a, the second may hold anything and the third is empty
AutoSyncWorlds ==
    {w \in InitialWorlds({ABSENT}, MaxFiles) :
        /\ \A f \in Folders : w.fs[f][ROOT] = DIR /\ ~IsLnk(w.fs[f]["d"])
        /\ IsFile(w.fs[1]["d/a"])
        /\ \A p \in Paths \ {MIRROR_MARKER} : w.fs[3][p] = ABSENT}

InitAutoSync ==
    /\ \E w \in AutoSyncWorlds : fs = w.fs /\ tgt = w.tgt
    /\ last = NoCall([fs |-> fs, tgt |-> tgt])
    /\ synced = {}
    /\ host = OneVolume
    /\ WatcherIdle(MaxEvents)
    /\ ObserverStarted
    /\ RegistryIdle

\* created files only; the clock runs and started threads run on
NextAutoSync ==
    \/ \E ep \in GroupFiles : OnCreated(ep, FALSE)
    \/ \E id \in TimerIds : TimerFires(id)
    \/ \E id \in TimerIds : FlushSelect(id)
    \/ \E id \in TimerIds : FlushSync(id)
    \/ Tick

Progress ==
    \/ Tick
    \/ \E id \in TimerIds : TimerFires(id) \/ FlushSelect(id) \/ FlushSync(id)

SpecAutoSync == InitAutoSync /\ [][NextAutoSync]_vars /\ WF_vars(Progress)

\* ================================================================= claims
\* the member folders that exist as directories
ExistingFolders(w) == {g \in Folders : w.fs[g][ROOT] = DIR}

\* the state the last call started from
Pre == last.pre

\* the path p cannot exist in folder g: a file sits where its directory
\* would be
Blocked(w, g, p) == Parent(p) # ROOT /\ IsFile(Lookup(w, g, Parent(p)))

\* a name collision at p for the identity i: before the call some member
\* folder held a different entry under that name
Collision(w, p, i) ==
    \E h \in Folders : (Exists(w, h, p) /\ Stat(w, h, p) # i) \/ Blocked(w, h, p)

\* C1: after sync_group returns on a group with at least 2 existing member
\* folders, every relative path that some member folder holds as a non-marker
\* file (a folder symlink is not entered) is held by every member folder with
\* the same identity, except where the name collides with a different entry
\* held before the call.
C1_EveryPathInEveryFolder ==
    (last.op = "sync_group" /\ ~last.raised /\ Cardinality(ExistingFolders(Pre)) >= 2)
    => \A p \in Paths, f \in Folders :
          (Basename(p) # MIRROR_MARKER /\ WalkedFile(World, f, p))
          => \A g \in Folders :
                \/ Stat(World, g, p) = Stat(World, f, p)
                \/ Collision(Pre, p, Stat(World, f, p))

\* the paths under which the group holds the identity i
NamesOf(w, i) == {p \in Paths : \E g \in Folders : WalkedFile(w, g, p) /\ w.fs[g][p] = i}

\* what does hold of the pass: the same, for every file that the group holds
\* under one relative path only
C1_HoldsForSingleNames ==
    (last.op = "sync_group" /\ ~last.raised /\ Cardinality(ExistingFolders(Pre)) >= 2)
    => \A p \in Paths, f \in Folders :
          (/\ Basename(p) # MIRROR_MARKER
           /\ WalkedFile(World, f, p)
           /\ NamesOf(Pre, Stat(World, f, p)) = {p})
          => \A g \in Folders :
                \/ Stat(World, g, p) = Stat(World, f, p)
                \/ Collision(Pre, p, Stat(World, f, p))

\* C2: a sync_group pass made right after another one creates no link and
\* leaves every folder as the first pass left it.
C2_SyncGroupIdempotent ==
    (last.op = "sync_group" /\ last.afterSync)
    => (last.created = <<>> /\ fs = Pre.fs /\ tgt = Pre.tgt)

\* the physical entries that hold a file now and were absent before the call,
\* and those that were there before the call and are absent now
AllSlots == {FileSlots[k] : k \in 1..Len(FileSlots)}
NewFileSlots == {s \in AllSlots : SlotValue(Pre, s) = ABSENT /\ IsFile(SlotValue(World, s))}
RemovedSlots == {s \in AllSlots : SlotValue(Pre, s) # ABSENT /\ SlotValue(World, s) = ABSENT}
Range(q) == {q[i] : i \in 1..Len(q)}

\* a second pass right after a pass that created links, over folders that
\* hold a name collision and a folder symlink
C2_Witness ==
    /\ last.op = "sync_group"
    /\ last.afterSync
    /\ last.prevCreated > 0
    /\ \E g \in Folders : IsLink(World, g, "d")
    /\ \E p \in Paths, g \in Folders, h \in Folders :
          /\ IsFile(Stat(World, g, p))
          /\ Basename(p) # MIRROR_MARKER
          /\ IsFile(Stat(World, h, p))
          /\ Stat(World, g, p) # Stat(World, h, p)

\* C3: a path that every member folder held at the end of a pass and that is
\* then removed from some but not all folders is, by the next pass, deleted
\* from every folder still holding it, created nowhere, and reported as removed.
C3_DeletionPropagates ==
    (last.op = "sync_group" /\ ~last.raised)
    => \A p \in last.known :
          ((\E g \in Folders : ~Exists(Pre, g, p)) /\ (\E g \in Folders : Exists(Pre, g, p)))
          => /\ \A g \in Folders : ~Exists(World, g, p)
             /\ \A c \in Range(last.created) : c[2] # p
             /\ Range(last.deleted) = {<<g, p>> : g \in {h \in Folders : Exists(Pre, h, p)}}

\* the last call was sync_file_to_group on a regular non-marker file of a
\* member folder
SyncedMemberFile ==
    /\ last.op = "sync_file_to_group"
    /\ last.f \in Folders
    /\ Basename(last.p) # MIRROR_MARKER
    /\ IsFile(Stat(Pre, last.f, last.p))

\* C4: sync_file_to_group on a regular file of a member folder leaves every
\* other member folder with the source's identity at the source's relative
\* path unless the folder held a different entry there (or a file where the
\* path's directory would be); it returns exactly the destinations it
\* created, none in the source's folder, and a repeated call returns the
\* empty list.
C4_SyncFileReachesEveryFolder ==
    SyncedMemberFile
    => LET ino == Stat(Pre, last.f, last.p) IN
       /\ \A g \in Folders \ {last.f} :
             \/ Stat(World, g, last.p) = ino
             \/ (Exists(Pre, g, last.p) /\ Stat(Pre, g, last.p) # ino)
             \/ Blocked(Pre, g, last.p)
       /\ ~last.raised =>
             /\ {SlotOf(World, c[1], c[2]) : c \in Range(last.created)} = NewFileSlots
             /\ Len(last.created) = Cardinality(NewFileSlots)
             /\ \A c \in Range(last.created) : c[1] # last.f /\ c[2] = last.p
             /\ (last.afterSync => last.created = <<>>)

\* what does hold of the call: the same, whenever no exception left it
C4_HoldsWhenNothingRaised ==
    (SyncedMemberFile /\ ~last.raised)
    => LET ino == Stat(Pre, last.f, last.p) IN
       /\ \A g \in Folders \ {last.f} :
             \/ Stat(World, g, last.p) = ino
             \/ (Exists(Pre, g, last.p) /\ Stat(Pre, g, last.p) # ino)
       /\ {SlotOf(World, c[1], c[2]) : c \in Range(last.created)} = NewFileSlots
       /\ Len(last.created) = Cardinality(NewFileSlots)
       /\ \A c \in Range(last.created) : c[1] # last.f /\ c[2] = last.p
       /\ (last.afterSync => last.created = <<>>)

\* C5: sync_file_to_group and sync_group never remove, replace or overwrite
\* a directory entry: every entry that existed before the call is there
\* unchanged after it, and no destination that existed is reported as created.
C5_CollisionsAreSkipped ==
    (last.op \in {"sync_group", "sync_file_to_group"})
    => /\ \A g \in Folders, p \in Paths \cup {ROOT} :
             Lookup(Pre, g, p) # ABSENT => Lookup(World, g, p) = Lookup(Pre, g, p)
       /\ \A t \in Targets, n \in TargetNames :
             Pre.tgt[t][n] # ABSENT => tgt[t][n] = Pre.tgt[t][n]
       /\ \A c \in Range(last.created) : ~Exists(Pre, c[1], c[2])

\* a call that met a name collision: a destination held another file, and
\* the call still created a link elsewhere
C5_Witness ==
    /\ SyncedMemberFile
    /\ \E g \in Folders : /\ IsFile(Stat(Pre, g, last.p))
                          /\ Stat(Pre, g, last.p) # Stat(Pre, last.f, last.p)
    /\ last.created # <<>>

\* C6: delete_from_group removes, in every member folder, the entry at the
\* path's relative path exactly when it has the path's identity; entries with
\* another identity and entries at other paths stay; it returns exactly the
\* removed paths, and returns nothing and changes nothing when the path does
\* not exist or lies under no member folder.
C6_DeleteOnlyMatchingIdentity ==
    (last.op = "delete_from_group")
    => IF last.f \in Folders /\ Exists(Pre, last.f, last.p)
       THEN LET ino == Stat(Pre, last.f, last.p) IN
            /\ \A g \in Folders :
                  /\ Stat(Pre, g, last.p) = ino => ~Exists(World, g, last.p)
                  /\ Stat(Pre, g, last.p) # ino
                        => Lookup(World, g, last.p) = Lookup(Pre, g, last.p)
            /\ \A g \in Folders, q \in (Paths \cup {ROOT}) \ {last.p} :
                  Lookup(World, g, q) = Lookup(Pre, g, q)
            /\ {SlotOf(Pre, c[1], c[2]) : c \in Range(last.deleted)} = RemovedSlots
            /\ Len(last.deleted) = Cardinality(RemovedSlots)
            /\ \A c \in Range(last.deleted) : c[2] = last.p
       ELSE last.deleted = <<>> /\ fs = Pre.fs /\ tgt = Pre.tgt

\* a deletion that removed the file from two folders and spared a folder
\* holding another file under the same name
C6_Witness ==
    /\ last.op = "delete_from_group"
    /\ Len(last.deleted) >= 2
    /\ \E g \in Folders : /\ IsFile(Stat(Pre, g, last.p))
                          /\ Stat(Pre, g, last.p) # Stat(Pre, last.f, last.p)


\* ------------------------------------------------------ the watcher's claims
\* the path is a regular file now
IsFileNow(ep) == IsFile(Stat(World, ep[1], ep[2]))

\* on_created has just scheduled the existing file ep
Notified(ep) ==
    wlast.op = "on_created" /\ wlast.path = ep /\ wlast.accepted /\ IsFileNow(ep)

\* every other member folder holds ep's file under ep's relative path, or
\* holds a different entry there (or a file where the path's directory would be)
Served(ep) ==
    \A g \in Folders \ {ep[1]} :
        \/ Stat(World, g, ep[2]) = Stat(World, ep[1], ep[2])
        \/ Exists(World, g, ep[2])
        \/ Blocked(World, g, ep[2])

\* the path is neither pending nor in the list of a running _flush
Settled(ep) ==
    /\ ep \notin Keys(_pending)
    /\ \A id \in TimerIds :
          threads[id].fn = "_flush"
          => \A i \in 1..Len(threads[id].todo) : threads[id].todo[i].path # ep

\* C7: once on_created has scheduled a regular file of a member folder of the
\* registered, auto-synced group, eventually every other member folder holds
\* the file under the same relative path with the same identity, unless a
\* different entry occupies that path there.
C7_AutoSyncEventually ==
    \A ep \in GroupFiles : [](Notified(ep) => <>Served(ep))

\* what does hold: once a scheduled file has left the pending table and the
\* flush's list, every other member folder is served, for files whose
\* directory no member folder blocks with a regular file
C7_HoldsWhenNothingBlocks ==
    \A ep \in GroupFiles :
        (/\ hist[ep].n >= 1
         /\ Settled(ep)
         /\ IsFileNow(ep)
         /\ \A g \in Folders : ~Blocked(World, g, ep[2]))
        => Served(ep)

\* C8: create notifications for one existing file of the auto-synced group,
\* each less than debounce_seconds after the one before, lead to at most one
\* sync_file_to_group call and at most one on_sync callback, and to exactly
\* one call once the path has left the pending table and the flush's list.
C8_DebounceCoalesces ==
    \A ep \in GroupFiles :
        (hist[ep].n >= 1 /\ hist[ep].clean)
        => /\ hist[ep].calls <= 1
           /\ hist[ep].cbs <= 1
           /\ (Settled(ep) => hist[ep].calls = 1)

\* three notifications in a row, flushed as one call
C8_Witness ==
    \E ep \in GroupFiles :
        /\ hist[ep].n >= 3
        /\ hist[ep].clean
        /\ Settled(ep)
        /\ hist[ep].calls = 1
        /\ hist[ep].cbs = 1

\* C9: a create or delete notification that the handler schedules sets the
\* path's due time to the notification's time plus debounce_seconds, also when
\* the path is pending already; and a flush starts a path's sync or delete
\* propagation no earlier than debounce_seconds after the last notification
\* scheduled for the path before the flush took it from the table.
C9_DebounceTiming ==
    [][/\ \A ep \in GroupFiles :
             /\ OnCreated(ep, FALSE) => DueOf(_pending', ep) = now + debounce_seconds
             /\ (OnDeleted(ep, FALSE) /\ ep \notin _suppressed_deletes)
                   => DueOf(_pending_deletes', ep) = now + debounce_seconds
       /\ \A id \in TimerIds :
             (FlushSync(id) \/ FlushDelete(id))
             => now >= Head(threads[id].todo).seen + debounce_seconds]_vars

\* a sync started for a path that was notified again while it was pending
C9_Witness ==
    /\ wlast.op = "sync"
    /\ wlast.accepted
    /\ hist[wlast.path].n >= 2
    /\ hist[wlast.path].clean
    /\ hist[wlast.path].calls = 1

\* the path lies in the registered group and the group's auto-sync flag is on
InEnabledGroup(ep) ==
    registry.registered /\ ep[1] \in Folders /\ registry.sync_enabled

\* C10: a create or delete notification for a directory, or for a path that
\* lies in no registered group or in a group whose auto-sync flag is off,
\* leaves both pending tables as they are; and a flush that finds the group of
\* a pending path removed or switched off creates no link and deletes no entry.
C10_OnlyEnabledGroups ==
    [][/\ \A ep \in EventPaths, d \in BOOLEAN :
             ((OnCreated(ep, d) \/ OnDeleted(ep, d)) /\ (d \/ ~InEnabledGroup(ep)))
             => UNCHANGED <<_pending, _pending_deletes>>
       /\ \A id \in TimerIds :
             ((FlushSync(id) \/ FlushDelete(id))
                /\ ~InEnabledGroup(Head(threads[id].todo).path))
             => UNCHANGED <<fs, tgt, _suppressed_deletes>>]_vars

\* a flush has just dropped an existing file whose group was switched off or
\* removed while the path was pending
C10_Witness ==
    /\ wlast.op = "sync"
    /\ ~wlast.accepted
    /\ IsFileNow(wlast.path)
    /\ ~InEnabledGroup(wlast.path)


\* ------------------------------------------ deletions seen by the watcher
\* a synced group: every member folder holds the same file under the name a
SuppressWorld ==
    [fs |-> [f \in AllFolders |->
               IF f = Outside THEN OutsideTree
               ELSE FolderTree(f, [root |-> DIR, a |-> 1, d |-> ABSENT, da |-> ABSENT])],
     tgt |-> [t \in Targets |-> [n \in TargetNames |-> ABSENT]]]

CopyPaths == {<<f, "a">> : f \in Folders}

InitSuppress ==
    /\ fs = SuppressWorld.fs
    /\ tgt = SuppressWorld.tgt
    /\ last = NoCall(SuppressWorld)
    /\ synced = {}
    /\ host = OneVolume
    /\ WatcherIdle(MaxEvents)
    /\ ObserverStarted
    /\ RegistryIdle

\* users remove copies; the observer delivers the delete notifications of the
\* removals it has seen, in any order and at any time
NextSuppress ==
    \/ \E ep \in CopyPaths : WatchedUnlink(ep)
    \/ \E ep \in observer.queue : OnDeleted(ep, FALSE)
    \/ \E id \in TimerIds : TimerFires(id)
    \/ \E id \in TimerIds : FlushDeletesSelect(id)
    \/ \E id \in TimerIds : FlushDelete(id)
    \/ \E id \in TimerIds : FlushSuppress(id)
    \/ Tick

SpecSuppress == InitSuppress /\ [][NextSuppress]_vars

\* the delete notification for ep is dropped by the suppression set
Dropped(ep) ==
    /\ ep \in _suppressed_deletes
    /\ ep \notin _suppressed_deletes'
    /\ UNCHANGED _pending_deletes

\* C11: the delete notification of a removal that the watcher's own
\* propagation made finds its path in the suppression set, takes it out and
\* is dropped: it is never scheduled for propagation, whenever it is delivered.
C11_OwnDeletesSuppressed ==
    [][\A ep \in CopyPaths :
          (OnDeleted(ep, FALSE) /\ ep \in observer.own) => Dropped(ep)]_vars

\* some flush thread has made removals and not yet recorded them
Recording(ep) ==
    \E id \in TimerIds :
        /\ threads[id].pc = "suppressing"
        /\ \E i \in 1..Len(threads[id].deleted) : threads[id].deleted[i] = ep

\* what does hold: the notification is dropped when it is delivered after the
\* flush has recorded its removals
C11_HoldsOnceRecorded ==
    [][\A ep \in CopyPaths :
          (OnDeleted(ep, FALSE) /\ ep \in observer.own /\ ~Recording(ep))
          => Dropped(ep)]_vars

\* ---------------------------------------------------- stopping the watcher
\* the paths a running flush of kind fn has taken from its table
InFlight(fn) ==
    UNION {{threads[id].todo[i].path : i \in 1..Len(threads[id].todo)} :
              id \in {k \in TimerIds : threads[k].fn = fn}}

\* MirrorGroupWatcher.stop(): the observer is stopped and joined and the
\* watched paths are forgotten; the handler, its tables and its timers are
\* not touched
Stop ==
    /\ observer.running
    /\ observer' = [observer EXCEPT
          !.running = FALSE,
          !.queue = {},
          !.stopped = TRUE,
          !.pending_syncs = Keys(_pending) \ InFlight("_flush"),
          !.pending_deletes = Keys(_pending_deletes) \ InFlight("_flush_deletes")]
    /\ UNCHANGED <<fs, tgt, last, synced, wvars, rvars, host>>

\* notifications arrive while the observer runs; stop() may come at any time
NextStop ==
    \/ observer.running /\ \E ep \in GroupFiles : OnCreated(ep, FALSE)
    \/ observer.running /\ \E ep \in GroupFiles : OnDeleted(ep, FALSE)
    \/ Stop
    \/ \E id \in TimerIds : TimerFires(id)
    \/ \E id \in TimerIds : FlushSelect(id)
    \/ \E id \in TimerIds : FlushDeletesSelect(id)
    \/ \E id \in TimerIds : FlushSync(id)
    \/ \E id \in TimerIds : FlushDelete(id)
    \/ \E id \in TimerIds : FlushSuppress(id)
    \/ Tick

SpecStop == InitDebounce /\ [][NextStop]_vars

\* C12: once stop() has returned, no flush acts for a path that was in a
\* pending table when stop was called: no sync creates a link for it and no
\* delete propagation removes an entry for it.
C12_StopDiscardsPending ==
    [][\A id \in TimerIds :
          /\ (FlushSync(id) /\ observer.stopped
                /\ Head(threads[id].todo).path \in observer.pending_syncs)
             => UNCHANGED <<fs, tgt>>
          /\ (FlushDelete(id) /\ observer.stopped
                /\ Head(threads[id].todo).path \in observer.pending_deletes)
             => UNCHANGED <<fs, tgt>>]_vars

\* what does hold: after stop() no path enters a pending table
C12_HoldsNothingNewScheduled ==
    [][observer.stopped
          => /\ Keys(_pending') \subseteq Keys(_pending)
             /\ Keys(_pending_deletes') \subseteq Keys(_pending_deletes)]_vars

\* ================================================= the mirror group registry
\* what a registry call reads and writes, passed through the operators as one
\* value: the table, the file, the filesystem and the markers' contents
Reg == [groups |-> _groups, file |-> file, w |-> World, markers |-> markers]

\* write_mirror_marker(folder, group_id): open(marker, "w") makes the file if
\* the folder exists; an OSError is swallowed
write_mirror_marker(r, p, gid) ==
    IF ~IsDir(r.w, p[1], ROOT) THEN r
    ELSE [r EXCEPT !.w = IF IsFile(Stat(r.w, p[1], MIRROR_MARKER)) THEN @
                         ELSE SetEntry(@, p[1], MIRROR_MARKER, MarkerInode(p[1])),
                   !.markers[p[1]] = gid]

\* remove_mirror_marker(folder)
remove_mirror_marker(r, p) ==
    IF ~IsFile(Stat(r.w, p[1], MIRROR_MARKER)) THEN r
    ELSE [r EXCEPT !.w = SetEntry(@, p[1], MIRROR_MARKER, ABSENT),
                   !.markers[p[1]] = NoId]

\* read_mirror_marker(folder): the group id, or None
read_mirror_marker(r, f) ==
    IF IsFile(Stat(r.w, f, MIRROR_MARKER)) /\ r.markers[f] # NoId
    THEN r.markers[f] ELSE NoId

\* for folder in folders: write_mirror_marker(folder, gid)
RECURSIVE WriteMarkers(_, _, _, _)
WriteMarkers(r, folders, i, gid) ==
    IF i > Len(folders) THEN r
    ELSE WriteMarkers(write_mirror_marker(r, folders[i], gid), folders, i + 1, gid)

\* for folder in folders: remove_mirror_marker(folder)
RECURSIVE RemoveMarkers(_, _, _)
RemoveMarkers(r, folders, i) ==
    IF i > Len(folders) THEN r
    ELSE RemoveMarkers(remove_mirror_marker(r, folders[i]), folders, i + 1)

\* a set of paths in some list order (the marker calls on the different
\* strings of a set commute)
RECURSIVE ListOf(_)
ListOf(S) ==
    IF S = {} THEN <<>>
    ELSE LET x == CHOOSE y \in S : TRUE IN <<x>> \o ListOf(S \ {x})

\* _save(): the file now holds the table
Saved(r) == [r EXCEPT !.file = save(r.groups)]

\* create_group(folders, name, sync_enabled) at time t with fresh id gid
create_group(r, folders, name, sync_enabled, gid, t) ==
    LET g0 == [id |-> gid, name |-> name, folders |-> folders,
               sync_enabled |-> sync_enabled, created_at |-> t, modified_at |-> t]
        g == IF name = EmptyName THEN [g0 EXCEPT !.name = auto_name(folders)] ELSE g0
        r1 == Saved([r EXCEPT !.groups = PutGroup(@, g)])
    IN  [r |-> WriteMarkers(r1, folders, 1, gid), ret |-> g]

\* update_group(group_id, name, folders, sync_enabled) at time t
update_group(r, id, name, folders, sync_enabled, t) ==
    IF ~HasGroup(r.groups, id) THEN [r |-> r, ret |-> None]
    ELSE LET g == GetGroup(r.groups, id)
             g1 == IF name # None THEN [g EXCEPT !.name = Value(name)] ELSE g
             old_set == Range(g.folders)
             new_set == IF folders # None THEN Range(Value(folders)) ELSE {}
             r1 == IF folders # None
                   THEN RemoveMarkers(r, ListOf(old_set \ new_set), 1) ELSE r
             g2 == IF folders # None
                   THEN [g1 EXCEPT !.folders = Value(folders),
                                   !.name = auto_name(Value(folders))]
                   ELSE g1
             r2 == IF folders # None
                   THEN WriteMarkers(r1, ListOf(new_set \ old_set), 1, id) ELSE r1
             g3 == IF sync_enabled # None
                   THEN [g2 EXCEPT !.sync_enabled = Value(sync_enabled)] ELSE g2
             g4 == [g3 EXCEPT !.modified_at = t]
         IN  [r |-> Saved([r2 EXCEPT !.groups = PutGroup(@, g4)]), ret |-> Some(g4)]

\* delete_group that leaves the markers where they are
delete_group_KeepsMarkers(r, id) ==
    IF ~HasGroup(r.groups, id) THEN [r |-> r, ret |-> FALSE]
    ELSE [r |-> Saved([r EXCEPT !.groups = DelGroup(@, id)]), ret |-> TRUE]

\* delete_group(group_id)
delete_group(r, id) ==
    IF ~HasGroup(r.groups, id) THEN [r |-> r, ret |-> FALSE]
    ELSE LET r1 == RemoveMarkers(r, GetGroup(r.groups, id).folders, 1)
         IN  [r |-> Saved([r1 EXCEPT !.groups = DelGroup(@, id)]), ret |-> TRUE]

\* clear_all_groups()
RECURSIVE ClearMarkers(_, _, _)
ClearMarkers(r, tab, i) ==
    IF i > Len(tab) THEN r
    ELSE ClearMarkers(RemoveMarkers(r, tab[i].folders, 1), tab, i + 1)
clear_all_groups(r) ==
    LET r1 == ClearMarkers(r, r.groups, 1)
    IN  [r |-> Saved([r1 EXCEPT !.groups = <<>>]), ret |-> Len(r.groups)]

\* add_folder_to_group that leaves the file as it was
add_folder_to_group_Unsaved(r, id, folder, t) ==
    IF ~HasGroup(r.groups, id) THEN [r |-> r, ret |-> FALSE]
    ELSE LET g == GetGroup(r.groups, id)
             p == abspath(folder)
         IN  IF p \in Range(g.folders) THEN [r |-> r, ret |-> TRUE]
             ELSE LET fl == Append(g.folders, p)
                      g1 == [g EXCEPT !.folders = fl, !.name = auto_name(fl),
                                      !.modified_at = t]
                      r1 == [r EXCEPT !.groups = PutGroup(@, g1)]
                  IN  [r |-> write_mirror_marker(r1, p, id), ret |-> TRUE]

\* add_folder_to_group(group_id, folder) at time t
add_folder_to_group(r, id, folder, t) ==
    IF ~HasGroup(r.groups, id) THEN [r |-> r, ret |-> FALSE]
    ELSE LET g == GetGroup(r.groups, id)
             p == abspath(folder)
         IN  IF p \in Range(g.folders) THEN [r |-> r, ret |-> TRUE]
             ELSE LET fl == Append(g.folders, p)
                      g1 == [g EXCEPT !.folders = fl, !.name = auto_name(fl),
                                      !.modified_at = t]
                      r1 == Saved([r EXCEPT !.groups = PutGroup(@, g1)])
                  IN  [r |-> write_mirror_marker(r1, p, id), ret |-> TRUE]

\* list.remove(x): the first occurrence goes
RemoveFirst(s, x) ==
    LET i == CHOOSE j \in 1..Len(s) : s[j] = x /\ \A k \in 1..(j - 1) : s[k] # x
    IN  [k \in 1..(Len(s) - 1) |-> IF k < i THEN s[k] ELSE s[k + 1]]

\* remove_folder_from_group(group_id, folder) at time t
remove_folder_from_group(r, id, folder, t) ==
    IF ~HasGroup(r.groups, id) THEN [r |-> r, ret |-> FALSE]
    ELSE LET g == GetGroup(r.groups, id)
             p == abspath(folder)
         IN  IF p \notin Range(g.folders) THEN [r |-> r, ret |-> FALSE]
             ELSE LET fl == RemoveFirst(g.folders, p)
                      g1 == [g EXCEPT !.folders = fl, !.name = auto_name(fl),
                                      !.modified_at = t]
                      r1 == Saved([r EXCEPT !.groups = PutGroup(@, g1)])
                  IN  [r |-> remove_mirror_marker(r1, p), ret |-> TRUE]

\* ------------------------------------------------------ registry actions
\* the registry's callers: at most MaxCalls calls, at most MaxGroups groups
\* at a time, folder lists of at most MaxFolders paths
MaxCalls == 3
MaxGroups == 2
MaxFolders == 2

\* the ids a caller can name: every uuid handed out so far, and one that
\* never was
KnownIds == 1..uuid
InputPaths == {<<1, 0>>, <<1, 1>>, <<2, 0>>}
ListInputs ==
    UNION {[1..n -> InputPaths] : n \in 0..MaxFolders}

\* the state after a registry call: what the call left, and the call's name,
\* return value and, for a scan, argument
CalledWith(op, args, res) ==
    /\ _groups' = res.r.groups
    /\ file' = res.r.file
    /\ fs' = res.r.w.fs
    /\ tgt' = res.r.w.tgt
    /\ markers' = res.r.markers
    /\ rlast' = [op |-> op, args |-> args, ret |-> res.ret]
    /\ clock' = clock + 1
    /\ UNCHANGED <<last, synced, wvars, observer, host>>

Called(op, res) == CalledWith(op, <<>>, res)

CanCall == clock <= MaxCalls

CreateGroupCall(folders, name, sync_enabled) ==
    /\ CanCall
    /\ Len(_groups) < MaxGroups
    /\ Called("create_group", create_group(Reg, folders, name, sync_enabled, uuid, clock))
    /\ uuid' = uuid + 1

UpdateGroupCall(id, name, folders, sync_enabled) ==
    /\ CanCall
    /\ Called("update_group", update_group(Reg, id, name, folders, sync_enabled, clock))
    /\ UNCHANGED uuid

DeleteGroupCall(id) ==
    /\ CanCall
    /\ Called("delete_group", delete_group(Reg, id))
    /\ UNCHANGED uuid

ClearAllGroupsCall ==
    /\ CanCall
    /\ Called("clear_all_groups", clear_all_groups(Reg))
    /\ UNCHANGED uuid

AddFolderToGroupCall(id, folder) ==
    /\ CanCall
    /\ Called("add_folder_to_group", add_folder_to_group(Reg, id, folder, clock))
    /\ UNCHANGED uuid

RemoveFolderFromGroupCall(id, folder) ==
    /\ CanCall
    /\ Called("remove_folder_from_group", remove_folder_from_group(Reg, id, folder, clock))
    /\ UNCHANGED uuid

\* three directories without markers (two hold a hardlink of one file, the
\* third a subdirectory with a file), no registry file, and a registry
\* constructed on it
EmptyFolder == [p \in Paths \cup {ROOT} |-> IF p = ROOT THEN DIR ELSE ABSENT]
RegistryFolders ==
    [f \in AllFolders |->
        IF f \in {1, 2} THEN [EmptyFolder EXCEPT !["a"] = 1]
        ELSE IF f = 3 THEN [EmptyFolder EXCEPT !["d"] = DIR, !["d/a"] = 2]
        ELSE EmptyFolder]
InitRegistry ==
    /\ fs = RegistryFolders
    /\ tgt = [t \in Targets |-> [n \in TargetNames |-> ABSENT]]
    /\ last = NoCall([fs |-> fs, tgt |-> tgt])
    /\ synced = {}
    /\ host = OneVolume
    /\ WatcherIdle(0)
    /\ ObserverIdle
    /\ file = MissingFile
    /\ _groups = load(file).groups
    /\ markers = [f \in Folders |-> NoId]
    /\ rlast = [op |-> "none", args |-> <<>>, ret |-> None]
    /\ uuid = 1
    /\ clock = 1

NextRegistry ==
    \/ \E fl \in ListInputs, name \in {EmptyName, Typed(1)}, se \in BOOLEAN :
          CreateGroupCall(fl, name, se)
    \/ \E id \in KnownIds, name \in {None, Some(Typed(2))},
          fl \in {None} \cup {Some(l) : l \in ListInputs}, se \in {None, Some(FALSE)} :
          UpdateGroupCall(id, name, fl, se)
    \/ \E id \in KnownIds : DeleteGroupCall(id)
    \/ ClearAllGroupsCall
    \/ \E id \in KnownIds, p \in InputPaths : AddFolderToGroupCall(id, p)
    \/ \E id \in KnownIds, p \in InputPaths : RemoveFolderFromGroupCall(id, p)

SpecRegistry == InitRegistry /\ [][NextRegistry]_vars

\* ------------------------------------------------------------------- C13
\* C13: after every mutator (create_group, update_group, delete_group,
\* clear_all_groups, add_folder_to_group, remove_folder_from_group) the
\* registry file holds exactly the in-memory table: constructing a fresh
\* registry on the file loads, without an error, the same groups in the same
\* order with the same id, name, ordered folder list, auto-sync flag and
\* timestamps
Mutators ==
    {"create_group", "update_group", "delete_group", "clear_all_groups",
     "add_folder_to_group", "remove_folder_from_group"}
C13_FileHoldsTable ==
    rlast.op \in Mutators =>
        /\ ~load(file).raised
        /\ load(file).groups = _groups

\* add_folder_to_group was called on a registry of two groups, one of them
\* modified after it was created, and the file holds both
C13_Witness ==
    /\ rlast.op = "add_folder_to_group"
    /\ Len(_groups) = 2
    /\ \E i \in 1..2 : _groups[i].modified_at > _groups[i].created_at
    /\ load(file).groups = _groups

\* ------------------------------------------------------------------- C14
\* the files a registry can be constructed on: missing, not JSON, JSON of
\* another shape, or a list of up to MaxItems items under "groups"; an item
\* is a saved group, a group object without its optional keys, or a string
MaxItems == 2
SampleGroups ==
    {[id |-> i, name |-> auto_name(fl), folders |-> fl, sync_enabled |-> se,
      created_at |-> 1, modified_at |-> 1] :
        i \in 1..2, fl \in {<<<<1, 0>>, <<2, 0>>>>, <<<<3, 0>>>>}, se \in BOOLEAN}
Items ==
    {asdict(g) : g \in SampleGroups}
        \cup {[k \in {"id", "folders"} |-> g[k]] : g \in SampleGroups}
        \cup {StringItem}
Documents ==
    {[kind |-> k] : k \in {"missing", "not_json", "not_object",
                           "object_without_groups", "object_scalar_groups"}}
        \cup {[kind |-> "object", groups |-> l] :
                l \in UNION {[1..n -> Items] : n \in 0..MaxItems}}

\* a document holding a list of group records
WellFormed(f) ==
    /\ f.kind = "object"
    /\ \A i \in 1..Len(f.groups) : DOMAIN f.groups[i] = GroupFields
Parseable(f) == f.kind \notin {"missing", "not_json"}

\* MirrorGroupRegistry(path): __init__ calls load()
Construct ==
    /\ rlast.op = "none"
    /\ _groups' = load(file).groups
    /\ rlast' = [op |-> "__init__", args |-> <<>>, ret |-> load(file).raised]
    /\ UNCHANGED <<fs, tgt, host, last, synced, wvars, observer, file, markers, uuid, clock>>

InitLoad ==
    /\ fs = [f \in AllFolders |-> EmptyFolder]
    /\ tgt = [t \in Targets |-> [n \in TargetNames |-> ABSENT]]
    /\ last = NoCall([fs |-> fs, tgt |-> tgt])
    /\ synced = {}
    /\ host = OneVolume
    /\ WatcherIdle(0)
    /\ ObserverIdle
    /\ file \in Documents
    /\ _groups = <<>>
    /\ markers = [f \in Folders |-> NoId]
    /\ rlast = [op |-> "none", args |-> <<>>, ret |-> FALSE]
    /\ uuid = 3
    /\ clock = 2

NextLoad == Construct

SpecLoad == InitLoad /\ [][NextLoad]_vars

\* C14: loading never fails: on a missing file and on a file malformed in any
\* way (not parseable, or parseable but not a document holding a list of group
\* records) the constructor returns without an error and the registry is empty
C14_LoadNeverFails ==
    (rlast.op = "__init__" /\ ~WellFormed(file)) =>
        /\ rlast.ret = FALSE
        /\ _groups = <<>>

\* what load() does guarantee: a missing file and a file that is not JSON
\* give an empty registry and no error
C14_HoldsForUnparseable ==
    (rlast.op = "__init__" /\ ~Parseable(file)) =>
        /\ rlast.ret = FALSE
        /\ _groups = <<>>

\* ------------------------------------------------------------------- C15
\* the directory entries other than markers
NonMarkerEntries(w) ==
    [f \in AllFolders |-> [p \in (Paths \cup {ROOT}) \ {MIRROR_MARKER} |-> w[f][p]]]

\* C15: delete_group(id) for an existing id removes the group from the table
\* and from the file, removes the marker from each of its member folders and
\* returns true, leaving every directory entry that is not a marker as it
\* was; for an unknown id it returns false and changes nothing
C15_DeleteGroup ==
    [][\A id \in KnownIds :
          DeleteGroupCall(id) =>
              IF HasGroup(_groups, id)
              THEN /\ rlast'.ret = TRUE
                   /\ _groups' = DelGroup(_groups, id)
                   /\ ~HasGroup(load(file').groups, id)
                   /\ load(file').groups = _groups'
                   /\ \A p \in Range(GetGroup(_groups, id).folders) :
                         fs'[p[1]][MIRROR_MARKER] = ABSENT
                   /\ NonMarkerEntries(fs') = NonMarkerEntries(fs)
                   /\ tgt' = tgt
              ELSE /\ rlast'.ret = FALSE
                   /\ UNCHANGED <<_groups, file, fs, tgt, markers>>]_vars

\* a group with two marked folders was deleted and another group remains
C15_Witness ==
    /\ rlast.op = "delete_group"
    /\ rlast.ret = TRUE
    /\ Len(_groups) = 1
    /\ Len(_groups[1].folders) = 2
    /\ \E f \in Folders : fs[f][MIRROR_MARKER] = ABSENT /\ fs[f]["a"] # ABSENT

\* ------------------------------------------------------------------- C16
\* C16: member folders form a set: in every reachable registry state, with
\* folders given in any spelling of the same directory, no group's folder
\* list contains the same normalized absolute path more than once
C16_FoldersFormSet ==
    \A g \in Range(_groups) :
        \A i, j \in 1..Len(g.folders) :
            i # j => normpath(g.folders[i]) # normpath(g.folders[j])

\* a folder created under one spelling and added under another is listed twice
C16_AddedUnderOtherSpelling ==
    /\ rlast.op = "add_folder_to_group"
    /\ \E g \in Range(_groups) : g.folders = <<<<1, 1>>, <<2, 0>>, <<1, 0>>>>

\* ================================================================ discovery
\* the directory that holds the member folders, as a root to walk
Top == 4
Roots == Spellings \cup {<<Top, 0>>}
isdir(r, p) ==
    IF p[1] = Top THEN TRUE
    ELSE IF p[2] = 2 THEN IsDir(r.w, p[1], "d")
    ELSE IsDir(r.w, p[1], ROOT)

\* the directories os.walk(root) yields that can hold a marker: the member
\* folders at or below the root, by their joined (normalized) paths
WalkDirs(r, root) ==
    IF root[1] = Top
    THEN SelectSeq(<<<<1, 0>>, <<2, 0>>, <<3, 0>>>>, LAMBDA p : isdir(r, p))
    ELSE <<root>>

\* [normpath(abspath(f)) for f in folders if isdir(f)]
RECURSIVE NormalizedDirs(_, _)
NormalizedDirs(r, folders) ==
    IF folders = <<>> THEN <<>>
    ELSE (IF isdir(r, Head(folders)) THEN <<normpath(Head(folders))>> ELSE <<>>)
             \o NormalizedDirs(r, Tail(folders))

\* group_id_folders.setdefault(marker_id, []).append(dirpath): a dict in
\* insertion order
SetDefaultAppend(d, key, x) ==
    IF \E i \in 1..Len(d) : d[i].key = key
    THEN [i \in 1..Len(d) |->
             IF d[i].key = key THEN [d[i] EXCEPT !.folders = Append(@, x)] ELSE d[i]]
    ELSE Append(d, [key |-> key, folders |-> <<x>>])

\* the walk of quick_scan_mirrors over the directories dirs
RECURSIVE CollectMarkers(_, _, _)
CollectMarkers(r, dirs, d) ==
    IF dirs = <<>> THEN d
    ELSE LET marker_id == read_mirror_marker(r, Head(dirs)[1])
         IN  CollectMarkers(r, Tail(dirs),
                 IF marker_id # NoId THEN SetDefaultAppend(d, marker_id, Head(dirs)) ELSE d)

RECURSIVE WalkRoots(_, _, _)
WalkRoots(r, roots, d) ==
    IF roots = <<>> THEN d
    ELSE WalkRoots(r, Tail(roots), CollectMarkers(r, WalkDirs(r, Head(roots)), d))

\* existing_sets: the registered groups' folder sets, normalized
existing_sets(tab) ==
    {{normpath(abspath(tab[i].folders[j])) : j \in 1..Len(tab[i].folders)} :
        i \in 1..Len(tab)}

\* the creating loop without the test against the registered sets
RECURSIVE CreateFound_NoSkip(_, _, _, _, _, _)
CreateFound_NoSkip(r, cands, existing, gid, t, new_groups) ==
    IF cands = <<>> THEN [r |-> r, ret |-> new_groups, uuid |-> gid]
    ELSE LET folders == Head(cands)
         IN  IF Len(folders) < 2
             THEN CreateFound_NoSkip(r, Tail(cands), existing, gid, t, new_groups)
             ELSE LET c == create_group(r, folders, EmptyName, TRUE, gid, t)
                  IN  CreateFound_NoSkip(c.r, Tail(cands), existing, gid + 1, t,
                                         Append(new_groups, c.ret))

\* the creating loop shared by the scans: every candidate list of at least
\* two entries whose set is not registered becomes a group
RECURSIVE CreateFound(_, _, _, _, _, _)
CreateFound(r, cands, existing, gid, t, new_groups) ==
    IF cands = <<>> THEN [r |-> r, ret |-> new_groups, uuid |-> gid]
    ELSE LET folders == Head(cands)
         IN  IF Len(folders) < 2 \/ Range(folders) \in existing
             THEN CreateFound(r, Tail(cands), existing, gid, t, new_groups)
             ELSE LET c == create_group(r, folders, EmptyName, TRUE, gid, t)
                  IN  CreateFound(c.r, Tail(cands), existing, gid + 1, t,
                                  Append(new_groups, c.ret))

\* quick_scan_mirrors that walks its first root only
quick_scan_mirrors_FirstRootOnly(r, root_folders, gid, t) ==
    LET roots == NormalizedDirs(r, root_folders)
        found == WalkRoots(r, SubSeq(roots, 1, 1), <<>>)
    IN  IF roots = <<>> THEN [r |-> r, ret |-> <<>>, uuid |-> gid]
        ELSE CreateFound(r, [i \in 1..Len(found) |-> found[i].folders],
                         existing_sets(r.groups), gid, t, <<>>)

\* quick_scan_mirrors(root_folders) at time t, the next fresh id being gid
quick_scan_mirrors(r, root_folders, gid, t) ==
    LET roots == NormalizedDirs(r, root_folders)
        found == WalkRoots(r, roots, <<>>)
    IN  IF roots = <<>> THEN [r |-> r, ret |-> <<>>, uuid |-> gid]
        ELSE CreateFound(r, [i \in 1..Len(found) |-> found[i].folders],
                         existing_sets(r.groups), gid, t, <<>>)

\* ------------------------------------------------------- discovery actions
\* a scan may follow MaxCalls earlier calls
CanScan == clock <= MaxCalls + 1

\* a scan call: the groups it created are its return value
Scanned(op, args, res) ==
    /\ CalledWith(op, args, [r |-> res.r, ret |-> res.ret])
    /\ uuid' = res.uuid

QuickScanCall(root_folders) ==
    /\ CanScan
    /\ Scanned("quick_scan_mirrors", root_folders,
               quick_scan_mirrors(Reg, root_folders, uuid, clock))

\* the registry file is deleted and the application started again: the new
\* registry loads nothing; the record keeps the table that was lost
LoseRegistry ==
    /\ CanCall
    /\ _groups # <<>>
    /\ file' = MissingFile
    /\ _groups' = load(file').groups
    /\ rlast' = [op |-> "lost", args |-> <<>>, ret |-> _groups]
    /\ clock' = clock + 1
    /\ UNCHANGED <<fs, tgt, host, last, synced, wvars, observer, markers, uuid>>

\* the folder lists groups are created from, and the roots a scan is given
RecoverLists ==
    [1..2 -> {<<1, 0>>, <<1, 1>>, <<2, 0>>, <<3, 0>>}] \cup {<<<<1, 0>>, <<2, 0>>, <<3, 0>>>>}
RootLists ==
    {<<<<Top, 0>>>>, <<<<Top, 1>>, <<1, 0>>>>, <<<<1, 0>>, <<2, 0>>>>, <<<<2, 1>>, <<1, 0>>>>,
     <<<<1, 0>>, <<2, 0>>, <<3, 0>>>>, <<<<3, 0>>>>}

NextRecover ==
    \/ \E fl \in RecoverLists : CreateGroupCall(fl, EmptyName, TRUE)
    \/ LoseRegistry
    \/ \E roots \in RootLists : QuickScanCall(roots)

SpecRecover == InitRegistry /\ [][NextRecover]_vars

\* ------------------------------------------------------- scan_for_mirrors
\* the identities os.stat reports for the filenames os.walk(folder) yields:
\* the files directly in the folder (the marker included) and those in its
\* real subdirectory; a symlinked directory is not entered
FilesUnder(r, f) ==
    {r.w.fs[f][p] : p \in {p \in TopPaths : IsFile(r.w.fs[f][p])}}
        \cup (IF r.w.fs[f]["d"] = DIR /\ IsFile(r.w.fs[f]["d/a"])
              THEN {r.w.fs[f]["d/a"]} ELSE {})

\* inode_to_folders: identity -> set of indices of folders holding it
inode_to_folders(r, folders) ==
    [k \in UNION {FilesUnder(r, folders[i][1]) : i \in 1..Len(folders)} |->
        {i \in 1..Len(folders) : k \in FilesUnder(r, folders[i][1])}]

\* union-find over the folder indices
RECURSIVE find(_, _)
find(parent, x) == IF parent[x] = x THEN x ELSE find(parent, parent[x])
union(parent, a, b) ==
    LET ra == find(parent, a)
        rb == find(parent, b)
    IN  IF ra # rb THEN [parent EXCEPT ![ra] = rb] ELSE parent

\* for i in range(1, len(indices)): union(indices[0], indices[i])
RECURSIVE UnionAll(_, _, _)
UnionAll(parent, first, rest) ==
    IF rest = {} THEN parent
    ELSE LET i == CHOOSE j \in rest : TRUE
         IN  UnionAll(union(parent, first, i), first, rest \ {i})

\* for folder_indices in inode_to_folders.values()
RECURSIVE UnionShared(_, _, _)
UnionShared(parent, table, keys) ==
    IF keys = {} THEN parent
    ELSE LET k == CHOOSE x \in keys : TRUE
             indices == table[k]
             first == CHOOSE j \in indices : TRUE
         IN  UnionShared(IF Cardinality(indices) < 2 THEN parent
                         ELSE UnionAll(parent, first, indices \ {first}),
                         table, keys \ {k})

\* components: root -> folders, a dict in order of the first index
RECURSIVE Components(_, _, _, _)
Components(parent, folders, idx, d) ==
    IF idx > Len(folders) THEN d
    ELSE Components(parent, folders, idx + 1,
                    SetDefaultAppend(d, find(parent, idx), folders[idx]))

\* scan_for_mirrors(folders) at time t, the next fresh id being gid
scan_for_mirrors(r, folders_in, gid, t) ==
    LET folders == NormalizedDirs(r, folders_in)
        table == inode_to_folders(r, folders)
        parent == UnionShared([i \in 1..Len(folders) |-> i], table, DOMAIN table)
        comps == Components(parent, folders, 1, <<>>)
    IN  IF Len(folders) < 2 THEN [r |-> r, ret |-> <<>>, uuid |-> gid]
        ELSE CreateFound(r, [i \in 1..Len(comps) |-> comps[i].folders],
                         existing_sets(r.groups), gid, t, <<>>)

ScanForMirrorsCall(folders) ==
    /\ CanScan
    /\ Scanned("scan_for_mirrors", folders, scan_for_mirrors(Reg, folders, uuid, clock))

\* --------------------------------------------------- scan_content_mirrors
\* the SHA-256 of a file's bytes: hardlinks hold the same bytes, and the
\* files 1 and 2 are copies of each other
Content(i) == IF i = 2 THEN 1 ELSE i

NoFp == <<>>

\* sha256(';'.join(sorted(file_fps)) + '|' + ';'.join(sorted(child_fps))):
\* taken as injective; a sorted list is written as the count of each value
Counted(s) == [x \in Range(s) |-> Cardinality({i \in 1..Len(s) : s[i] = x})]
Fingerprint(file_fps, child_fps) ==
    IF file_fps = <<>> /\ child_fps = <<>> THEN NoFp
    ELSE <<Counted(file_fps), Counted(child_fps)>>

\* _dir_fingerprint of the subdirectory "d": its one file, if any
SubDirFp(r, f) ==
    Fingerprint(IF IsFile(r.w.fs[f]["d/a"]) THEN <<Content(r.w.fs[f]["d/a"])>> ELSE <<>>,
                <<>>)

\* the same with the marker file hashed like any other file
FolderFp_CountsMarker(r, f) ==
    LET fa == IF IsFile(r.w.fs[f]["a"]) THEN <<Content(r.w.fs[f]["a"])>> ELSE <<>>
        fd == IF IsFile(r.w.fs[f]["d"]) THEN <<Content(r.w.fs[f]["d"])>> ELSE <<>>
        fm == IF IsFile(r.w.fs[f][MIRROR_MARKER])
              THEN <<Content(r.w.fs[f][MIRROR_MARKER])>> ELSE <<>>
        cd == IF r.w.fs[f]["d"] = DIR /\ SubDirFp(r, f) # NoFp
              THEN <<SubDirFp(r, f)>> ELSE <<>>
    IN  Fingerprint(fa \o fd \o fm, cd)

\* _dir_fingerprint of a member folder: its files except the marker, and its
\* real subdirectory; a symlink is neither
FolderFp(r, f) ==
    LET fa == IF IsFile(r.w.fs[f]["a"]) THEN <<Content(r.w.fs[f]["a"])>> ELSE <<>>
        fd == IF IsFile(r.w.fs[f]["d"]) THEN <<Content(r.w.fs[f]["d"])>> ELSE <<>>
        cd == IF r.w.fs[f]["d"] = DIR /\ SubDirFp(r, f) # NoFp
              THEN <<SubDirFp(r, f)>> ELSE <<>>
    IN  Fingerprint(fa \o fd, cd)

\* _dir_fingerprint of the directory above the member folders
TopFp(r) ==
    LET fl == SelectSeq(<<1, 2, 3>>,
                        LAMBDA f : IsDir(r.w, f, ROOT) /\ FolderFp(r, f) # NoFp)
    IN  Fingerprint(<<>>, [i \in 1..Len(fl) |-> FolderFp(r, fl[i])])

DirFp(r, p) ==
    IF p[1] = Top THEN TopFp(r)
    ELSE IF p[2] = 2 THEN SubDirFp(r, p[1])
    ELSE FolderFp(r, p[1])

\* the directories whose fingerprint a call on root puts into fp_cache, a
\* directory after the directories it contains
FolderDirs(r, f) ==
    (IF r.w.fs[f]["d"] = DIR THEN <<SubDir(f)>> ELSE <<>>) \o <<<<f, 0>>>>
CachedDirs(r, root) ==
    IF root[1] = Top
    THEN (IF IsDir(r.w, 1, ROOT) THEN FolderDirs(r, 1) ELSE <<>>)
             \o (IF IsDir(r.w, 2, ROOT) THEN FolderDirs(r, 2) ELSE <<>>)
             \o (IF IsDir(r.w, 3, ROOT) THEN FolderDirs(r, 3) ELSE <<>>)
             \o <<root>>
    ELSE FolderDirs(r, root[1])

\* fp_groups: fingerprint -> directories, over fp_cache in insertion order
RECURSIVE GroupByFp(_, _, _, _)
GroupByFp(r, dirs, seen, d) ==
    IF dirs = <<>> THEN d
    ELSE LET p == Head(dirs)
         IN  IF p \in seen \/ DirFp(r, p) = NoFp
             THEN GroupByFp(r, Tail(dirs), seen \cup {p}, d)
             ELSE GroupByFp(r, Tail(dirs), seen \cup {p},
                            SetDefaultAppend(d, DirFp(r, p), p))

RECURSIVE AllCachedDirs(_, _)
AllCachedDirs(r, roots) ==
    IF roots = <<>> THEN <<>>
    ELSE CachedDirs(r, Head(roots)) \o AllCachedDirs(r, Tail(roots))

\* other.startswith(f + os.sep): f is an ancestor directory of other
IsAncestor(f, other) ==
    \/ f[1] = Top /\ other[1] # Top
    \/ f[1] = other[1] /\ f[2] = 0 /\ other[2] = 2

has_mirror_marker(r, p) ==
    p[1] # Top /\ p[2] = 0 /\ IsFile(Stat(r.w, p[1], MIRROR_MARKER))

\* the loop over fp_groups.values()
RECURSIVE Classify(_, _, _, _)
Classify(r, lists, existing, out) ==
    IF lists = <<>> THEN out
    ELSE LET folders == Head(lists)
             filtered == SelectSeq(folders,
                 LAMBDA f : ~\E o \in Range(folders) : o # f /\ IsAncestor(f, o))
         IN  IF Len(folders) < 2 \/ Len(filtered) < 2 \/ Range(filtered) \in existing
             THEN Classify(r, Tail(lists), existing, out)
             ELSE IF \A f \in Range(filtered) : has_mirror_marker(r, f)
             THEN Classify(r, Tail(lists), existing,
                           [out EXCEPT !.auto_confirmed = Append(@, filtered)])
             ELSE Classify(r, Tail(lists), existing,
                           [out EXCEPT !.candidates = Append(@, filtered)])

\* scan_content_mirrors(root_folders): the pair (auto_confirmed, candidates)
scan_content_mirrors(r, root_folders) ==
    LET roots == NormalizedDirs(r, root_folders)
        fp_groups == GroupByFp(r, AllCachedDirs(r, roots), {}, <<>>)
        none == [auto_confirmed |-> <<>>, candidates |-> <<>>]
    IN  IF roots = <<>> THEN none
        ELSE Classify(r, [i \in 1..Len(fp_groups) |-> fp_groups[i].folders],
                      existing_sets(r.groups), none)

ScanContentCall(root_folders) ==
    /\ CanScan
    /\ CalledWith("scan_content_mirrors", root_folders,
                  [r |-> Reg, ret |-> scan_content_mirrors(Reg, root_folders)])
    /\ UNCHANGED uuid

\* ---------------------------------------------------------- the scan world
\* three sibling directories without markers and an empty registry: files 1
\* and 2 are copies of each other, each possibly hardlinked into two folders;
\* file 3 has other contents
ScanFolder(a, da) ==
    [EmptyFolder EXCEPT !["a"] = a,
                        !["d"] = IF da = ABSENT THEN ABSENT ELSE DIR,
                        !["d/a"] = da]
ScanWorlds ==
    {[f \in AllFolders |->
        IF f = 1 THEN ScanFolder(a1, d1)
        ELSE IF f = 2 THEN ScanFolder(a2, d2)
        ELSE IF f = 3 THEN ScanFolder(a3, d3)
        ELSE EmptyFolder] :
        a1 \in {ABSENT, 1}, d1 \in {ABSENT, 3},
        a2 \in {1, 2}, d2 \in {ABSENT, 2},
        a3 \in {ABSENT, 2}, d3 \in {ABSENT, 3}}

InitScan ==
    /\ fs \in ScanWorlds
    /\ tgt = [t \in Targets |-> [n \in TargetNames |-> ABSENT]]
    /\ last = NoCall([fs |-> fs, tgt |-> tgt])
    /\ synced = {}
    /\ host = OneVolume
    /\ WatcherIdle(0)
    /\ ObserverIdle
    /\ file = MissingFile
    /\ _groups = load(file).groups
    /\ markers = [f \in Folders |-> NoId]
    /\ rlast = [op |-> "none", args |-> <<>>, ret |-> None]
    /\ uuid = 1
    /\ clock = 1

\* the folder lists given to create_group and to the scans
GroupLists ==
    {<<<<1, 0>>, <<2, 0>>>>, <<<<2, 0>>, <<3, 0>>>>, <<<<1, 0>>, <<2, 0>>, <<3, 0>>>>}
ScanLists ==
    {<<<<1, 0>>, <<2, 0>>, <<3, 0>>>>, <<<<3, 0>>, <<2, 1>>, <<1, 0>>>>,
     <<<<1, 0>>, <<2, 0>>>>, <<<<2, 0>>, <<2, 0>>>>, <<<<1, 0>>, <<1, 1>>, <<2, 0>>>>}
ScanRoots ==
    {<<<<Top, 0>>>>, <<<<1, 0>>, <<2, 0>>, <<3, 0>>>>, <<<<Top, 0>>, <<1, 1>>>>}

NextScan ==
    \/ \E fl \in GroupLists : CreateGroupCall(fl, EmptyName, TRUE)
    \/ \E fl \in ScanLists : ScanForMirrorsCall(fl)
    \/ \E roots \in ScanRoots : QuickScanCall(roots)
    \/ \E roots \in ScanRoots : ScanContentCall(roots)

SpecScan == InitScan /\ [][NextScan]_vars

\* ------------------------------------------------------------------- C17
NormSet(folders) == {normpath(abspath(folders[i])) : i \in 1..Len(folders)}
Covers(roots, p) == \E i \in 1..Len(roots) : roots[i][1] = Top \/ roots[i][1] = p[1]

\* a group of at least two folders, each carrying the group's marker and each
\* at or below one of the roots
Recoverable(g, roots) ==
    /\ Cardinality(NormSet(g.folders)) >= 2
    /\ \A p \in Range(g.folders) :
          read_mirror_marker(Reg, p[1]) = g.id /\ Covers(roots, p)

\* C17: marker recovery: for a group G of at least two member folders that
\* each carry G's marker, after the registry file was deleted and the registry
\* loaded again, quick_scan_mirrors over roots containing those folders
\* creates exactly one group whose normalized folder set equals G's, and the
\* group is registered
C17_MarkerRecovery ==
    [][\A roots \in RootLists :
          (QuickScanCall(roots) /\ rlast.op = "lost") =>
              \A g \in Range(rlast.ret) :
                  Recoverable(g, roots) =>
                      /\ Cardinality({i \in 1..Len(rlast'.ret) :
                             NormSet(rlast'.ret[i].folders) = NormSet(g.folders)}) = 1
                      /\ \A i \in 1..Len(rlast'.ret) : rlast'.ret[i] \in Range(_groups')]_vars

\* a scan after the loss of the registry gave back a group of three folders,
\* registered and saved again
C17_Witness ==
    /\ rlast.op = "quick_scan_mirrors"
    /\ Len(rlast.ret) = 1
    /\ NormSet(rlast.ret[1].folders) = {<<1, 0>>, <<2, 0>>, <<3, 0>>}
    /\ file = save(_groups)

\* ------------------------------------------------------------------- C18
Creating == {"quick_scan_mirrors", "scan_for_mirrors"}
Reported(ret) == Range(ret.auto_confirmed) \cup Range(ret.candidates)

\* C18: discovery never re-registers: no group a scan creates, and no folder
\* list scan_content_mirrors reports, has the normalized folder set of a group
\* that was in the registry when the scan began; and quick_scan_mirrors or
\* scan_for_mirrors run a second time with the same argument on the
\* filesystem as the first run left it creates no group and leaves the
\* registry and its file unchanged
C18_NeverReRegisters ==
    [][/\ rlast'.op \in Creating =>
              \A i \in 1..Len(rlast'.ret) :
                  NormSet(rlast'.ret[i].folders) \notin existing_sets(_groups)
       /\ rlast'.op = "scan_content_mirrors" =>
              \A l \in Reported(rlast'.ret) : NormSet(l) \notin existing_sets(_groups)
       /\ (rlast.op \in Creating /\ rlast'.op = rlast.op /\ rlast'.args = rlast.args) =>
              /\ rlast'.ret = <<>>
              /\ UNCHANGED <<_groups, file, fs, markers>>]_vars

\* scan_for_mirrors found the three folders linked and registered them; run
\* again with the same list it returned nothing
C18_Witness ==
    /\ rlast.op = "scan_for_mirrors"
    /\ rlast.args = <<<<3, 0>>, <<2, 1>>, <<1, 0>>>>
    /\ rlast.ret = <<>>
    /\ clock = 3
    /\ Len(_groups) = 1
    /\ _groups[1].folders = <<<<3, 0>>, <<2, 0>>, <<1, 0>>>>

\* ------------------------------------------------------------------- C19
\* the graph of the claim: the distinct input folders that are directories,
\* joined when they hold entries of one common identity
Vertices(fl) == {normpath(abspath(fl[i])) : i \in {j \in 1..Len(fl) : isdir(Reg, fl[j])}}
Linked(u, v) == u # v /\ FilesUnder(Reg, u[1]) \cap FilesUnder(Reg, v[1]) # {}
RECURSIVE ReachedFrom(_, _)
ReachedFrom(S, V) ==
    LET more == S \cup {v \in V : \E u \in S : Linked(u, v)}
    IN  IF more = S THEN S ELSE ReachedFrom(more, V)
ComponentsOfSizeTwo(fl) ==
    {c \in {ReachedFrom({v}, Vertices(fl)) : v \in Vertices(fl)} : Cardinality(c) >= 2}
CreatedSets(ret) == {NormSet(ret[i].folders) : i \in 1..Len(ret)}

\* the groups created are, one for one, the components of size >= 2 that are
\* not registered, and no folder is in two of them
ExactlyTheComponents(fl, registered, ret) ==
    /\ CreatedSets(ret) = ComponentsOfSizeTwo(fl) \ existing_sets(registered)
    /\ Len(ret) = Cardinality(CreatedSets(ret))
    /\ \A i, j \in 1..Len(ret) :
          i # j => NormSet(ret[i].folders) \cap NormSet(ret[j].folders) = {}

\* C19: scan_for_mirrors creates exactly the connected components of size >= 2
\* of the graph over the distinct input folders whose edges join folders that
\* (recursively) hold entries of one common identity, except the components
\* whose folder set is registered; every input folder is in at most one
\* created group
C19_ScanCreatesComponents ==
    [][\A fl \in ScanLists :
          ScanForMirrorsCall(fl) => ExactlyTheComponents(fl, _groups, rlast'.ret)]_vars

\* the same for input lists that name no folder twice
C19_HoldsForDistinctFolders ==
    [][\A fl \in ScanLists :
          (ScanForMirrorsCall(fl) /\ Cardinality(Vertices(fl)) = Len(fl)) =>
              ExactlyTheComponents(fl, _groups, rlast'.ret)]_vars

\* A and B share one file, B and C another: one group of the three
C19_Transitive ==
    /\ rlast.op = "scan_for_mirrors"
    /\ Len(rlast.ret) = 1
    /\ NormSet(rlast.ret[1].folders) = {<<1, 0>>, <<2, 0>>, <<3, 0>>}
    /\ FilesUnder(Reg, 1) \cap FilesUnder(Reg, 3) = {}

\* ============================================================ hardlink_ops
\* create_hardlink is called at most MaxLinkCalls times in a row
MaxLinkCalls == 2

\* os.path.join(dest_dir, dest_name), dest_name defaulting to the source's
\* basename; None is the empty name here
DestPath(sp, dp, dest_name) ==
    LET name == IF dest_name = "" THEN Basename(sp) ELSE dest_name
    IN  IF dp = ROOT THEN name ELSE "d/a"
Nameable(sp, dp, dest_name) ==
    dp = ROOT \/ (IF dest_name = "" THEN Basename(sp) ELSE dest_name) = "a"

\* create_hardlink(source, dest_dir, dest_name) called from outside the sync
\* engine; the record keeps the arguments, the outcome and the trees before
CreateHardlinkCall(sf, sp, f, dp, dest_name) ==
    /\ Nameable(sp, dp, dest_name)
    /\ last.op \in {"none", "create_hardlink"}
    /\ (last.op = "create_hardlink" => last.n < MaxLinkCalls)
    /\ LET res == create_hardlink(World, sf, sp, f, DestPath(sp, dp, dest_name))
       IN  /\ fs' = res.w.fs
           /\ tgt' = res.w.tgt
           /\ last' = [op |-> "create_hardlink",
                       args |-> <<sf, sp, f, dp, dest_name>>,
                       ok |-> res.ok, error |-> res.error, pre |-> World,
                       n |-> IF last.op = "none" THEN 1 ELSE last.n + 1,
                       repeated |-> /\ last.op = "create_hardlink"
                                    /\ last.ok
                                    /\ last.args = <<sf, sp, f, dp, dest_name>>]
    /\ UNCHANGED <<synced, wvars, observer, rvars, host>>

\* two member folders (the second without a file "a", the third missing) and
\* the directory outside, on one volume or two, under either system
InitHardlink ==
    /\ \E w \in InitialWorlds({ABSENT}, MaxFiles) : fs = w.fs /\ tgt = w.tgt
    /\ fs[3][ROOT] = ABSENT
    /\ fs[2]["a"] = ABSENT
    /\ host \in [system : {"Linux", "Windows"}, st_dev : [AllFolders -> Devices]]
    /\ host.st_dev[1] = 1
    /\ host.st_dev[3] = 1
    /\ last = NoCall([fs |-> fs, tgt |-> tgt])
    /\ synced = {}
    /\ WatcherIdle(0)
    /\ ObserverIdle
    /\ RegistryIdle

NextHardlink ==
    \E sf \in {Outside, 1}, sp \in {"a", "d", "d/a"}, f \in {1, 2},
       dp \in {ROOT, "d"}, dest_name \in {"", "a"} :
        CreateHardlinkCall(sf, sp, f, dp, dest_name)

SpecHardlink == InitHardlink /\ [][NextHardlink]_vars

\* ------------------------------------------------------------------- C20
\* every name of every directory: the member folders, the directory outside,
\* and the directories that folder symlinks point to
PhysicalEntries ==
    {<<"fs", f, p>> : f \in AllFolders, p \in Paths}
        \cup {<<"tgt", t, n>> : t \in Targets, n \in TargetNames}
linkCount(w, i) == Cardinality({e \in PhysicalEntries : SlotValue(w, e) = i})
ChangedEntries(w1, w2) == {e \in PhysicalEntries : SlotValue(w1, e) # SlotValue(w2, e)}

\* C20: a successful create_hardlink(A, dirB[, name]) adds exactly one
\* directory entry, in dirB under the name, holding A's identity, raises A's
\* link count by exactly 1 and changes no other entry; the call repeated at
\* once with the same destination name fails with FileExistsError and leaves
\* the link count and every entry as they were
C20_CreateHardlink ==
    last.op = "create_hardlink" =>
        LET a == Stat(last.pre, last.args[1], last.args[2])
            dest == SlotOf(last.pre, last.args[3],
                           DestPath(last.args[2], last.args[4], last.args[5]))
        IN  /\ last.ok =>
                  /\ ChangedEntries(last.pre, World) = {dest}
                  /\ SlotValue(last.pre, dest) = ABSENT
                  /\ SlotValue(World, dest) = a
                  /\ IsFile(a)
                  /\ linkCount(World, a) = linkCount(last.pre, a) + 1
            /\ last.repeated =>
                  /\ ~last.ok
                  /\ last.error = "FileExistsError"
                  /\ World = last.pre
                  /\ linkCount(World, a) = linkCount(last.pre, a)

\* a link made through a symlinked directory, and the call repeated
C20_Witness ==
    /\ last.op = "create_hardlink"
    /\ last.repeated
    /\ last.error = "FileExistsError"
    /\ \E t \in Targets : tgt[t]["a"] = Stat(World, last.args[1], last.args[2])

\* ------------------------------------------------------------------- C21
\* the source of the last call names a regular file, and the destination
\* directory is a directory
RegularSource(w, sf, sp) == IsFile(Stat(w, sf, sp)) /\ ~IsLink(w, sf, sp)
CrossVolume(w, sf, sp, f, dp) == DevOf(w, sf, sp) # DevOf(w, f, dp)

\* what the last create_hardlink call had to report, in the order of the
\* checks; "none" where the claim names no error
ExpectedError ==
    LET w == last.pre
        sf == last.args[1]
        sp == last.args[2]
        f == last.args[3]
        dp == last.args[4]
    IN  IF ~Exists(w, sf, sp) THEN "FileNotFoundError"
        ELSE IF ~RegularSource(w, sf, sp) THEN "ValueError"
        ELSE IF ~IsDir(w, f, dp) THEN "none"
        ELSE IF CrossVolume(w, sf, sp, f, dp) THEN "ValueError"
        ELSE IF Exists(w, f, DestPath(sp, dp, last.args[5])) THEN "FileExistsError"
        ELSE "none"

NoEffect ==
    /\ World = last.pre
    /\ \A i \in Inodes : linkCount(World, i) = linkCount(last.pre, i)

\* C21: create_hardlink fails with FileNotFoundError when the source is
\* absent, with ValueError when the source is a directory or a symlink, with
\* ValueError when source and destination directory are on different
\* volumes, and with FileExistsError when the destination name is taken; a
\* failing call creates and changes no directory entry and no link count
C21_TypedErrors ==
    last.op = "create_hardlink" =>
        /\ (ExpectedError # "none" => ~last.ok /\ last.error = ExpectedError)
        /\ (~last.ok => NoEffect)

\* the same where the drive a path is spelled with is the volume it is on:
\* always on Linux, and on Windows unless the source or the destination
\* directory lies behind a folder symlink to another volume
C21_HoldsWhereDriveIsVolume ==
    (/\ last.op = "create_hardlink"
     /\ \/ host.system = "Linux"
        \/ /\ DevOf(last.pre, last.args[1], last.args[2]) = DriveOf(last.args[1])
           /\ DevOf(last.pre, last.args[3], last.args[4]) = DriveOf(last.args[3]))
        => /\ (ExpectedError # "none" => ~last.ok /\ last.error = ExpectedError)
           /\ (~last.ok => NoEffect)

\* on Windows a file of a member folder is linked into a folder symlink
\* whose target is on another volume: os.link fails, not the volume check
C21_CrossVolumeBehindSymlink ==
    /\ last.op = "create_hardlink"
    /\ host.system = "Windows"
    /\ last.error = "OSError"
    /\ IsLink(last.pre, last.args[3], last.args[4])
    /\ NoEffect

\* ============================================== sync_group on other groups
\* the folder lists of the groups sync_group is called with: empty, of one
\* folder, of two (also one folder twice), and the full group
GroupListsToSync == {<<>>, <<1>>, <<2>>, <<1, 2>>, <<2, 1>>, <<1, 1>>, GroupFolders}

\* sync_group(group) for a group with the folder list folders, once
SyncGroupOf(folders) ==
    LET r == sync_group(World, folders) IN
    /\ last.op = "none"
    /\ fs' = r.w.fs
    /\ tgt' = r.w.tgt
    /\ last' = [op |-> "sync_group", folders |-> folders, pre |-> World,
                created |-> r.created, raised |-> r.raised]
    /\ UNCHANGED <<synced, wvars, observer, rvars, host>>

NextSyncLists == \E folders \in GroupListsToSync : SyncGroupOf(folders)

SpecSyncLists == Init /\ [][NextSyncLists]_vars

\* ------------------------------------------------------------------- C22
\* the listed folders that exist as directories
ListedDirs(w, folders) == {g \in Range(folders) : IsDir(w, g, ROOT)}

\* C22: when the group lists fewer than 2 folders, or fewer than 2 of its
\* listed folders exist as directories, sync_group creates no link and no
\* directory, deletes nothing and returns an empty result
C22_NoOpBelowTwoFolders ==
    (/\ last.op = "sync_group"
     /\ \/ Len(last.folders) < 2
        \/ Cardinality(ListedDirs(last.pre, last.folders)) < 2)
        => /\ World = last.pre
           /\ last.created = <<>>
           /\ ~last.raised

\* the same for the groups that list fewer than 2 folders, or of whose
\* folders none exists, or whose one existing folder holds nothing to link
C22_HoldsWhenNothingToLink ==
    (/\ last.op = "sync_group"
     /\ \/ Len(last.folders) < 2
        \/ ListedDirs(last.pre, last.folders) = {}
        \/ /\ Cardinality(ListedDirs(last.pre, last.folders)) < 2
           /\ CollectFiles(last.pre, last.folders, 1, 1, <<>>) = <<>>
           /\ CollectSymlinks(last.pre, last.folders, 1, <<>>) = <<>>)
        => /\ World = last.pre
           /\ last.created = <<>>
           /\ ~last.raised

\* a group of two folders of which one is missing: the pass made the missing
\* folder and linked a file into it
C22_MissingFolderRecreated ==
    /\ last.op = "sync_group"
    /\ Len(last.folders) = 2
    /\ Cardinality(ListedDirs(last.pre, last.folders)) = 1
    /\ \E g \in Range(last.folders) :
          /\ ~IsDir(last.pre, g, ROOT)
          /\ IsDir(World, g, ROOT)
          /\ IsFile(Stat(World, g, "a"))
    /\ last.created # <<>>

\* ------------------------------------------------------------------- C23
\* p was synced across all member folders by an earlier pass and is gone
\* from every member folder when the pass starts
DeletedEverywhere(p) ==
    /\ last.op = "sync_group"
    /\ p \in last.known
    /\ \A g \in Folders : ~Exists(last.pre, g, p)

\* a real subdirectory of folder g that holds nothing
EmptySubdir(w, g) == w.fs[g][ROOT] = DIR /\ w.fs[g]["d"] = DIR /\ w.fs[g]["d/a"] = ABSENT

\* C23: when a path that sync_group had synced across all member folders
\* was afterwards deleted from every member folder, the next sync_group
\* pass leaves it absent everywhere, no longer records it as synced, and
\* removes every subdirectory that the deletion left empty
C23_DeletedEverywhereIsPruned ==
    \A p \in Paths :
        DeletedEverywhere(p) =>
            /\ \A g \in Folders : ~Exists(World, g, p)
            /\ p \notin synced
            /\ \A g \in Folders :
                  (Parent(p) # ROOT /\ EmptySubdir(last.pre, g)) => ~Exists(World, g, Parent(p))

\* the same without the pruning of directories
C23_HoldsForThePathItself ==
    \A p \in Paths :
        DeletedEverywhere(p) =>
            /\ \A g \in Folders : ~Exists(World, g, p)
            /\ p \notin synced

\* "d/a" was synced, then deleted in all three folders; after the pass the
\* empty directory "d" is still in every folder
C23_EmptyDirectoryLeft ==
    /\ DeletedEverywhere("d/a")
    /\ ~last.raised
    /\ \A g \in Folders : EmptySubdir(last.pre, g) /\ EmptySubdir(World, g)

\* ========================================================= marker files
\* the trees the syncs of marker files start from: the first member folder
\* exists, the other two exist or are missing, at most one regular file
MarkerWorlds ==
    {w \in InitialWorlds({ABSENT}, 1) :
        /\ w.fs[1][ROOT] = DIR
        /\ \A f \in {2, 3} : \A p \in Paths \ {MIRROR_MARKER} : w.fs[f][p] = ABSENT}

InitMarkerSync ==
    /\ \E w \in MarkerWorlds : fs = w.fs /\ tgt = w.tgt
    /\ last = NoCall([fs |-> fs, tgt |-> tgt])
    /\ synced = {}
    /\ host = OneVolume
    /\ WatcherIdle(1)
    /\ ObserverStarted
    /\ RegistryIdle

\* full passes, syncs of single files (marker files among them), and the
\* watcher handling the notification for a created marker file
NextMarkerSync ==
    \/ SyncGroup
    \/ \E f \in Folders, p \in Paths : SyncFileToGroup(f, p)
    \/ \E ep \in MarkerEvents : OnCreated(ep, FALSE)
    \/ \E id \in TimerIds : TimerFires(id)
    \/ \E id \in TimerIds : FlushSelect(id)
    \/ \E id \in TimerIds : FlushSync(id)
    \/ Tick

SpecMarkerSync == InitMarkerSync /\ [][NextMarkerSync]_vars

\* ------------------------------------------------------------------- C24
\* the identities of the marker files present in the member folders
MarkerIdentities(w) == {w.fs[g][MIRROR_MARKER] : g \in Folders} \ {ABSENT}

\* the marker entries of two different member folders never share an identity
MarkersApart ==
    \A g \in Folders, h \in Folders :
        (g # h /\ IsFile(fs[g][MIRROR_MARKER])) => fs[g][MIRROR_MARKER] # fs[h][MIRROR_MARKER]

\* a step changes no folder's marker and gives no directory entry the
\* identity of a marker file
MarkersKept ==
    /\ \A g \in Folders : fs'[g][MIRROR_MARKER] = fs[g][MIRROR_MARKER]
    /\ \A e \in PhysicalEntries :
          (SlotValue([fs |-> fs', tgt |-> tgt'], e) \in MarkerIdentities(World))
              => SlotValue(World, e) = SlotValue([fs |-> fs', tgt |-> tgt'], e)

\* C24: marker files are never propagated: no sync_file_to_group, no
\* sync_group and no watcher-driven sync of a created marker creates a
\* hardlink to a marker file or changes any folder's marker, and after any
\* sequence of syncs the markers of two different member folders never
\* share an identity
C24_MarkersNeverPropagated == [](MarkersApart) /\ [][MarkersKept]_vars

\* the watcher's flush handled the notification for the marker of the first
\* member folder while another member folder was missing
C24_Witness ==
    /\ wlast.op = "sync"
    /\ wlast.path \in MarkerEvents
    /\ wlast.accepted
    /\ \E g \in Folders : fs[g][ROOT] = ABSENT

\* ================================================== propagate_delete_to_group
\* propagate_delete_to_group(deletedPath, group) for the path p of folder f,
\* which is gone from f; no other member folder holds a real directory
\* under that name
PropagateDeleteCall(f, p) ==
    /\ ~Exists(World, f, p)
    /\ \A g \in Folders : Lookup(World, g, p) # DIR
    /\ LET r == propagate_delete_to_group(World, f, p, GroupFolders) IN
       /\ fs' = r.w.fs
       /\ tgt' = r.w.tgt
       /\ last' = [op |-> "propagate_delete_to_group", f |-> f, p |-> p,
                   pre |-> World, deleted |-> r.deleted]
    /\ UNCHANGED <<synced, wvars, observer, rvars, host>>

\* a file is removed from one member folder, then the removal is propagated
NextPropagate ==
    \/ \E f \in Folders, p \in Paths : UserDelete(f, p)
    \/ \E f \in AllFolders, p \in Paths : PropagateDeleteCall(f, p)

SpecPropagate == Init /\ [][NextPropagate]_vars

\* ------------------------------------------------------------------- C25
\* the directory entries that the path p names in the member folders other
\* than f, where there is one
EntriesAt(w, f, p) ==
    {SlotOf(w, g, p) : g \in {h \in Folders \ {f} : Exists(w, h, p)}}

\* C25: propagate_delete_to_group(deletedPath, group), called when
\* deletedPath is gone from its member folder, removes the entry at the
\* same relative path from every other member folder whatever its identity,
\* returns exactly the paths it removed, and leaves the entries at every
\* other relative path unchanged
C25_PropagateDelete ==
    (last.op = "propagate_delete_to_group" /\ last.f \in Folders) =>
        LET removed == {SlotOf(last.pre, d[1], d[2]) : d \in Range(last.deleted)}
        IN  /\ \A g \in Folders \ {last.f} : ~Exists(World, g, last.p)
            /\ \A d \in Range(last.deleted) :
                  d[1] \in Folders \ {last.f} /\ d[2] = last.p /\ Exists(last.pre, d[1], d[2])
            /\ removed = EntriesAt(last.pre, last.f, last.p)
            /\ Len(last.deleted) = Cardinality(removed)
            /\ ChangedEntries(last.pre, World) = removed

\* the path was held by two other member folders as different files, and
\* both entries were removed
C25_Witness ==
    /\ last.op = "propagate_delete_to_group"
    /\ last.f = 1
    /\ Len(last.deleted) = 2
    /\ IsFile(Stat(last.pre, 2, last.p))
    /\ IsFile(Stat(last.pre, 3, last.p))
    /\ Stat(last.pre, 2, last.p) # Stat(last.pre, 3, last.p)

\* ===================================================== _dir_fingerprint
\* the trees whose fingerprints are compared: two directories, each with or
\* without a marker, a file "a", and a name "d" that is absent, a file, a
\* folder symlink, or a subdirectory that is empty or holds a file; the files
\* 1 and 2 hold the same bytes, the file 3 other bytes
FingerprintTree(k, m, a, d, da) ==
    [EmptyFolder EXCEPT ![MIRROR_MARKER] = IF m THEN MarkerInode(k) ELSE ABSENT,
                        !["a"] = a, !["d"] = d, !["d/a"] = da]
FingerprintTrees(k) ==
    {FingerprintTree(k, m, a, d, da) :
        m \in BOOLEAN, a \in {ABSENT, k, 3}, d \in {ABSENT, DIR, Lnk(1), k, 3},
        da \in {ABSENT, k, 3}}
FingerprintWorlds ==
    {[f \in AllFolders |-> IF f = 1 THEN t1 ELSE IF f = 2 THEN t2 ELSE EmptyFolder] :
        t1 \in {t \in FingerprintTrees(1) : t["d"] # DIR => t["d/a"] = ABSENT},
        t2 \in {t \in FingerprintTrees(2) : t["d"] # DIR => t["d/a"] = ABSENT}}

InitFingerprint ==
    /\ fs \in FingerprintWorlds
    /\ tgt = [t \in Targets |-> [n \in TargetNames |-> ABSENT]]
    /\ last = NoCall([fs |-> fs, tgt |-> tgt])
    /\ synced = {}
    /\ host = OneVolume
    /\ WatcherIdle(0)
    /\ ObserverIdle
    /\ file = MissingFile
    /\ _groups = load(file).groups
    /\ markers = [f \in Folders |-> NoId]
    /\ rlast = [op |-> "none", args |-> <<>>, ret |-> None]
    /\ uuid = 1
    /\ clock = 1

\* _dir_fingerprint is applied to two directories of the trees
FingerprintCall(p, q) ==
    /\ rlast.op = "none"
    /\ isdir(Reg, p) /\ isdir(Reg, q)
    /\ rlast' = [op |-> "_dir_fingerprint", args |-> <<p, q>>,
                 ret |-> Some(<<DirFp(Reg, p), DirFp(Reg, q)>>)]
    /\ UNCHANGED <<fs, tgt, host, last, synced, wvars, observer,
                   _groups, file, markers, uuid, clock>>

NextFingerprint ==
    \E p \in {<<1, 0>>, <<1, 2>>}, q \in {<<2, 0>>, <<2, 2>>, <<1, 2>>} :
        p # q /\ FingerprintCall(p, q)

SpecFingerprint == InitFingerprint /\ [][NextFingerprint]_vars

\* ------------------------------------------------------------------- C26
\* the contents of a directory without the names: how often each file
\* content occurs directly in it (the marker aside), and how often each
\* subdirectory content; a folder symlink is no content
FileContents(w, p) ==
    IF p[2] = 2
    THEN (IF IsFile(w.fs[p[1]]["d/a"]) THEN <<Content(w.fs[p[1]]["d/a"])>> ELSE <<>>)
    ELSE (IF IsFile(w.fs[p[1]]["a"]) THEN <<Content(w.fs[p[1]]["a"])>> ELSE <<>>)
         \o (IF IsFile(w.fs[p[1]]["d"]) THEN <<Content(w.fs[p[1]]["d"])>> ELSE <<>>)
SubdirContents(w, f) == [files |-> Counted(FileContents(w, SubDir(f))), dirs |-> <<>>]
ContentsModuloNames(w, p) ==
    [files |-> Counted(FileContents(w, p)),
     dirs |-> IF p[2] = 0 /\ w.fs[p[1]]["d"] = DIR
              THEN Counted(<<SubdirContents(w, p[1])>>) ELSE <<>>]

\* the same with the subdirectories that hold no file left out
FilledContents(w, p) ==
    [files |-> Counted(FileContents(w, p)),
     dirs |-> IF p[2] = 0 /\ w.fs[p[1]]["d"] = DIR /\ FileContents(w, SubDir(p[1])) # <<>>
              THEN Counted(<<SubdirContents(w, p[1])>>) ELSE <<>>]

\* C26: two directories get the same content fingerprint if and only if
\* their recursive contents are the same up to the names of files and
\* folders: renaming changes nothing, markers change nothing, and a
\* difference in a file's bytes or in the shape of the tree, including
\* which subdirectories exist, gives a different fingerprint
C26_SameFingerprintIffSameContents ==
    rlast.op = "_dir_fingerprint" =>
        (Value(rlast.ret)[1] = Value(rlast.ret)[2]
            <=> ContentsModuloNames(World, rlast.args[1])
                    = ContentsModuloNames(World, rlast.args[2]))

\* C26 as amended: the same, where subdirectories that hold no file are no
\* part of the shape, and a directory that holds no file has no fingerprint
C26_SameFingerprintIffSameFiles ==
    rlast.op = "_dir_fingerprint" =>
        /\ (Value(rlast.ret)[1] = Value(rlast.ret)[2]
               <=> FilledContents(World, rlast.args[1])
                       = FilledContents(World, rlast.args[2]))
        /\ \A i \in {1, 2} :
              Value(rlast.ret)[i] = NoFp
                  <=> /\ FileContents(World, rlast.args[i]) = <<>>
                      /\ FilledContents(World, rlast.args[i]).dirs = <<>>

\* a marked directory and an unmarked one get the same fingerprint for a
\* file and a subdirectory with a file, the files being copies under
\* different names
C26_Witness ==
    /\ rlast.op = "_dir_fingerprint"
    /\ rlast.args = <<<<1, 0>>, <<2, 0>>>>
    /\ Value(rlast.ret)[1] = Value(rlast.ret)[2]
    /\ Value(rlast.ret)[1] # NoFp
    /\ IsFile(fs[1][MIRROR_MARKER]) /\ ~IsFile(fs[2][MIRROR_MARKER])
    /\ fs[1]["a"] = 1 /\ fs[2]["a"] = 2
    /\ fs[1]["d/a"] = 3 /\ fs[2]["d/a"] = 3

\* a directory with a file and an empty subdirectory gets the fingerprint of
\* a directory with the file alone
C26_EmptySubdirectoryIgnored ==
    /\ rlast.op = "_dir_fingerprint"
    /\ rlast.args = <<<<1, 0>>, <<2, 0>>>>
    /\ Value(rlast.ret)[1] = Value(rlast.ret)[2]
    /\ fs[1]["d"] = DIR /\ fs[1]["d/a"] = ABSENT
    /\ fs[2]["d"] = ABSENT

\* ------------------------------------------------------------------- C27
\* the folders of a list all carry a marker with one and the same group id
SameMarkerId(r, folders) ==
    \E id \in {read_mirror_marker(r, folders[1][1])} :
        /\ id # NoId
        /\ \A i \in 1..Len(folders) : read_mirror_marker(r, folders[i][1]) = id

\* how often the walks of the roots come to the directory p
TimesWalked(r, roots, p) ==
    Cardinality({i \in 1..Len(roots) :
                    isdir(r, roots[i]) /\ p \in Range(WalkDirs(r, normpath(roots[i])))})

\* C27: every group quick_scan_mirrors creates has at least 2 distinct
\* folders, all of them carrying a marker with the same group id when the
\* scan walks them, for every list of roots, also one that names a root
\* twice or a root inside another root; an id found in one folder only
\* never makes a group
C27_QuickScanGroups ==
    [][\A roots \in RootLists :
          QuickScanCall(roots) =>
              \A i \in 1..Len(rlast'.ret) :
                  /\ Cardinality(NormSet(rlast'.ret[i].folders)) >= 2
                  /\ SameMarkerId(Reg, rlast'.ret[i].folders)]_vars

\* the same where no directory is walked twice, and for every list of roots:
\* a created group lists at least 2 paths, all with the same marker id
C27_HoldsWhenWalkedOnce ==
    [][\A roots \in RootLists :
          QuickScanCall(roots) =>
              \A i \in 1..Len(rlast'.ret) :
                  /\ Len(rlast'.ret[i].folders) >= 2
                  /\ SameMarkerId(Reg, rlast'.ret[i].folders)
                  /\ (\A p \in Spellings : TimesWalked(Reg, roots, normpath(p)) <= 1)
                        => Cardinality(NormSet(rlast'.ret[i].folders)) >= 2]_vars

\* a scan over a directory and one folder inside it registered a group
\* that lists this one folder twice
C27_GroupOfOneFolder ==
    /\ rlast.op = "quick_scan_mirrors"
    /\ rlast.args = <<<<Top, 1>>, <<1, 0>>>>
    /\ \E i \in 1..Len(rlast.ret) :
          /\ rlast.ret[i].folders = <<<<1, 0>>, <<1, 0>>>>
          /\ rlast.ret[i] \in Range(_groups)

\* ================================================= sync_group and symlinks
\* a file that lies in the directory a folder symlink points to and nowhere
\* in a member folder
TargetFile == 20

\* member folders that may hold a folder symlink under either top name
SymlinkShapes ==
    {s \in [root : {ABSENT, DIR},
            a : {ABSENT} \cup Inodes \cup {Lnk(x) : x \in Targets},
            d : {ABSENT, DIR} \cup Inodes \cup {Lnk(x) : x \in Targets},
            da : {ABSENT} \cup Inodes] :
        /\ (s.root = ABSENT => s.a = ABSENT /\ s.d = ABSENT)
        /\ (s.d # DIR => s.da = ABSENT)}

\* the trees before a pass: at least one folder symlink, at most MaxFiles
\* regular files in the member folders, the directory the first target names
\* holding a file or not
SymlinkWorlds ==
    {w \in [fs : {[f \in AllFolders |->
                     IF f = Outside THEN OutsideTree ELSE FolderTree(f, s[f])] :
                  s \in [Folders -> SymlinkShapes]},
            tgt : {[t \in Targets |-> [n \in TargetNames |->
                       IF t = 1 THEN c ELSE ABSENT]] : c \in {ABSENT, TargetFile}}] :
        /\ FileCount(w) <= MaxFiles + 1
        /\ Cardinality({k \in 1..Len(FileSlots) :
                           SlotValue(w, FileSlots[k]) \in Inodes}) <= MaxFiles
        /\ InodesNumberedByFirstUse(w)
        /\ \E f \in Folders, p \in {"a", "d"} : IsLink(w, f, p)}

InitSyncSymlinks ==
    /\ \E w \in SymlinkWorlds : fs = w.fs /\ tgt = w.tgt
    /\ last = NoCall([fs |-> fs, tgt |-> tgt])
    /\ synced = {}
    /\ host = OneVolume
    /\ WatcherIdle(0)
    /\ ObserverIdle
    /\ RegistryIdle

SpecSyncSymlinks == InitSyncSymlinks /\ [][SyncGroup]_vars

\* ------------------------------------------------------------------- C28
\* the folder symlinks of the member folders: folder, relative path, target
MemberSymlinks(w) ==
    {s \in Folders \X {"a", "d"} \X Targets : Lookup(w, s[1], s[2]) = Lnk(s[3])}

\* the pass has another entry of the group to put under the name p: a
\* regular file of that name, a file in a directory of that name, or a
\* folder symlink of that name with another target
Contended(w, p, t) ==
    \E h \in Folders :
        \/ WalkedFile(w, h, p)
        \/ p = "d" /\ WalkedFile(w, h, "d/a")
        \/ \E t2 \in Targets \ {t} : Lookup(w, h, p) = Lnk(t2)

\* every folder symlink is in every other member folder whose path was
\* free and for which the group had no other entry of that name
SymlinksReplicated ==
    \A s \in MemberSymlinks(last.pre) : \A g \in Folders \ {s[1]} :
        (Lookup(last.pre, g, s[2]) = ABSENT /\ ~Contended(last.pre, s[2], s[3]))
            => Lookup(World, g, s[2]) = Lnk(s[3])

\* no directory of a member folder holds the file that lies behind a symlink
NothingFromBehindSymlinks ==
    \A g \in Folders, p \in Paths : fs[g][p] # TargetFile

\* C28: folder symlinks are opaque to sync_group: a folder symlink of a
\* member folder is replicated as a symlink with the same target at the same
\* relative path in every other member folder where that path is free, and
\* it is never traversed: no entry reachable only through the symlink is
\* linked into a member folder
C28_SymlinksOpaque ==
    last.op = "sync_group" => SymlinksReplicated /\ NothingFromBehindSymlinks

\* the same for the passes that no exception leaves; nothing from behind a
\* symlink is linked in any pass
C28_HoldsWhenNothingRaised ==
    last.op = "sync_group" =>
        /\ ~last.raised => SymlinksReplicated
        /\ NothingFromBehindSymlinks

\* a pass that os.makedirs left with an exception before the loop over the
\* symlinks: the symlink "a" is in one member folder only, the path is free
\* in the two others
C28_RaisedBeforeSymlinks ==
    /\ last.op = "sync_group"
    /\ last.raised
    /\ \E f \in Folders, t \in Targets :
          /\ Lookup(last.pre, f, "a") = Lnk(t)
          /\ \A g \in Folders \ {f} :
                /\ IsDir(last.pre, g, ROOT)
                /\ Lookup(last.pre, g, "a") = ABSENT
                /\ Lookup(World, g, "a") = ABSENT

\* a pass replicated a symlink whose target holds a file into two folders
C28_Replicated ==
    /\ last.op = "sync_group"
    /\ ~last.raised
    /\ tgt[1]["a"] = TargetFile
    /\ \E f \in Folders :
          /\ Lookup(last.pre, f, "d") = Lnk(1)
          /\ \A g \in Folders \ {f} :
                Lookup(last.pre, g, "d") = ABSENT /\ Lookup(World, g, "d") = Lnk(1)

\* ------------------------------------------------------------------- C29
\* notifications, timers and flushes as in SpecDebounce, where time passes,
\* a timer whose time has come fires, and a flush that has started gets the
\* lock and reads its table in the end
ThreadsRun ==
    \/ Tick
    \/ \E id \in TimerIds :
          TimerFires(id) \/ FlushSelect(id) \/ FlushDeletesSelect(id)

SpecPending == InitDebounce /\ [][NextDebounce]_vars /\ WF_vars(ThreadsRun)

\* the entries of a pending table
Entries(tab) == {tab[i] : i \in 1..Len(tab)}

\* the paths a flush thread has taken from its table and still to act on
Taken(id) == {threads[id].todo[i].path : i \in 1..Len(threads[id].todo)}

\* the locked section of the flush of thread id over the table tab: exactly
\* the entries due at the time the flush read the clock leave the table and
\* are the thread's list, none of them before its due time, and the others
\* stay as they are
TakesTheDue(id, tab, tabAfter) ==
    /\ \A e \in Entries(tab) :
          IF threads[id].now >= e.due
          THEN /\ e.path \notin Keys(tabAfter)
               /\ e.path \in {threads'[id].todo[i].path : i \in 1..Len(threads'[id].todo)}
               /\ now >= e.due
          ELSE e \in Entries(tabAfter)
    /\ Entries(tabAfter) \subseteq Entries(tab)
    /\ {threads'[id].todo[i].path : i \in 1..Len(threads'[id].todo)} \subseteq Keys(tab)

FlushesTakeTheDue ==
    \A id \in TimerIds :
        /\ FlushSelect(id) => TakesTheDue(id, _pending, _pending')
        /\ FlushDeletesSelect(id) => TakesTheDue(id, _pending_deletes, _pending_deletes')

\* a table that is not empty has its timer: a thread that waits to fire, or
\* has fired and not yet read the table
PendingHasTimer ==
    /\ _pending # <<>> =>
          /\ _timer # NoTimer
          /\ threads[_timer].fn = "_flush"
          /\ threads[_timer].pc \in {"waiting", "started"}
    /\ _pending_deletes # <<>> =>
          /\ _delete_timer # NoTimer
          /\ threads[_delete_timer].fn = "_flush_deletes"
          /\ threads[_delete_timer].pc \in {"waiting", "started"}

\* a flush of the table's kind holds the path in its list
HandedOver(fn, ep) == \E id \in TimerIds : threads[id].fn = fn /\ ep \in Taken(id)

\* a path leaves its table only into the list of a flush
LeavesByFlush ==
    /\ \A ep \in Keys(_pending) \ Keys(_pending') : HandedOver("_flush", ep)'
    /\ \A ep \in Keys(_pending_deletes) \ Keys(_pending_deletes') :
          HandedOver("_flush_deletes", ep)'

\* C29: no pending path is stranded: a flush takes from its table exactly
\* the paths whose due time has elapsed and keeps every other path with its
\* due time; a table that is not empty has a live timer that will examine
\* it, under every interleaving of notifications with a flush that is
\* starting or running; and every pending path is in the end handed to its
\* action, at or after its due time: both tables are empty in the end, and
\* a path leaves its table only into the list of a flush
C29_NoPendingStranded ==
    /\ [](PendingHasTimer)
    /\ [][FlushesTakeTheDue /\ LeavesByFlush]_vars
    /\ <>[](_pending = <<>> /\ _pending_deletes = <<>>)

\* a flush that read the clock before a path fell due has kept the path and
\* re-armed the timer, and goes on with the path it took
C29_Witness ==
    \E id \in TimerIds :
        /\ threads[id].pc = "working" /\ threads[id].fn = "_flush"
        /\ _pending # <<>>
        /\ \E i \in 1..Len(_pending) : _pending[i].due <= now
        /\ _timer # NoTimer /\ threads[_timer].pc = "waiting"

\* ------------------------------------------------------------------- C30
\* the timer threads of one pending table that are alive: waiting to fire,
\* or inside the flush
LiveTimers(fn) == {id \in TimerIds : is_alive(threads, id) /\ threads[id].fn = fn}

\* the timer threads of one table that have the table still before them
ArmedTimers(fn) ==
    {id \in TimerIds : threads[id].fn = fn /\ threads[id].pc \in {"waiting", "started"}}

\* C30: at every instant there is at most one live timer thread for each
\* pending table, counting a timer that waits to fire and a timer thread
\* that is still executing its flush
C30_OneLiveTimerPerTable ==
    /\ Cardinality(LiveTimers("_flush")) <= 1
    /\ Cardinality(LiveTimers("_flush_deletes")) <= 1

\* at most one timer thread of a table waits or is about to read the table,
\* and it is the one the handler holds
C30_HoldsForArmedTimers ==
    /\ ArmedTimers("_flush") \subseteq {_timer}
    /\ ArmedTimers("_flush_deletes") \subseteq {_delete_timer}

\* a flush re-armed the timer and goes on with its syncs: the new timer
\* waits while the old thread is still alive
C30_TwoLiveTimers ==
    \E id \in TimerIds :
        /\ threads[id].pc = "working" /\ threads[id].fn = "_flush"
        /\ _timer # NoTimer /\ _timer # id
        /\ threads[_timer].pc = "waiting"
        /\ _pending # <<>>

\* ------------------------------------------------------------------- C31
\* the time of the notification for which the flush thread id holds path ep
SeenBy(id, ep) ==
    LET i == CHOOSE i \in 1..Len(threads[id].todo) : threads[id].todo[i].path = ep
    IN  threads[id].todo[i].seen

\* the flush thread id acts on the head of its list while no other thread of
\* the same table holds that path for an earlier notification
EarliestFirst(id) ==
    LET ep == Head(threads[id].todo).path IN
    \A other \in TimerIds \ {id} :
        (threads[other].fn = threads[id].fn /\ ep \in Taken(other))
            => SeenBy(other, ep) >= SeenBy(id, ep)

\* C31: debounced actions for the same path are serialized: two
\* sync_file_to_group runs for one path, or two delete propagations for one
\* path, never overlap; a later action for a path starts only after the
\* earlier action for that path has finished
C31_SamePathSerialized ==
    [][\A id \in TimerIds : (FlushSync(id) \/ FlushDelete(id)) => EarliestFirst(id)]_vars

\* a later flush has synced a path that an earlier flush, still running,
\* holds in its list and has not come to yet
C31_LaterRanFirst ==
    /\ wlast.op = "sync"
    /\ \E id \in TimerIds :
          /\ threads[id].pc = "working" /\ threads[id].fn = "_flush"
          /\ wlast.path \in Taken(id)
          /\ Head(threads[id].todo).path # wlast.path
          /\ SeenBy(id, wlast.path) < hist[wlast.path].seen

\* ------------------------------------------- a flush beside the foreground
\* find_group_for_path(path) run alone on a table: the first group, in the
\* order of self._groups, with a folder that holds the path; the path is a
\* file of folder f
RECURSIVE FindIn(_, _, _)
FindIn(tab, f, i) ==
    IF i > Len(tab) THEN None
    ELSE IF \E k \in 1..Len(tab[i].folders) :
                normpath(abspath(tab[i].folders[k])) = <<f, 0>>
         THEN Some(<<tab[i].id, <<f, 0>>>>)
         ELSE FindIn(tab, f, i + 1)

\* the two loops of find_group_for_path as the timer thread runs them: the
\* dict iterator (the size of self._groups when it was made, the last key it
\* gave), the group it is at (gid, 0 between groups), the list group.folders
\* it walks (fl: the group's list, which the foreground changes in place
\* while the group is in the table) and the index of the list iterator (j);
\* t0, seen and saw record which states of the table the lookup ran beside
NewIter(tab, f, t) ==
    [used |-> Len(tab), lastId |-> 0, gid |-> 0, fl |-> <<>>, j |-> 0,
     seen |-> t, t0 |-> t, saw |-> {FindIn(tab, f, 1)}, ret |-> None]

\* the list object group.folders of the group the thread holds
HeldFolders(tab, it) ==
    IF HasGroup(tab, it.gid) THEN GetGroup(tab, it.gid).folders ELSE it.fl

\* next() of the iterator over self._groups.values(): RuntimeError when the
\* dict's size is not what it was, else the first entry after the last one
\* given (entries keep their order of insertion, which is the order of ids)
DictNext(tab, it) ==
    IF Len(tab) # it.used THEN [end |-> TRUE, raised |-> TRUE, it |-> it]
    ELSE LET later == {i \in 1..Len(tab) : tab[i].id > it.lastId} IN
         IF later = {} THEN [end |-> TRUE, raised |-> FALSE, it |-> it]
         ELSE LET i == CHOOSE i \in later : \A k \in later : i <= k IN
              [end |-> FALSE, raised |-> FALSE,
               it |-> [it EXCEPT !.lastId = tab[i].id, !.gid = tab[i].id,
                                 !.fl = tab[i].folders, !.j = 1]]

\* a timer thread in _flush: at the top of its loop over to_sync
\* ("flushing"), in find_group_for_path for the first path left ("looking"),
\* back from it with a group ("syncing"), or gone ("dead", with the paths it
\* did not come to)
FlushThread(pc, todo, it) ==
    [pc |-> pc, fn |-> "_flush", deadline |-> 0, now |-> 0, todo |-> todo,
     deleted |-> <<>>, it |-> it]
NoIter == NewIter(<<>>, Outside, 0)
\* the Timer object whose thread runs the flush
TheFlush == CHOOSE id \in TimerIds : \A k \in TimerIds : id <= k
DueLists == {<<<<1, "a">>>>, <<<<1, "a">>, <<1, "d/a">>>>, <<<<1, "d/a">>, <<1, "a">>>>}

\* the thread saw every change of the table so far
Observed ==
    threads[TheFlush].pc \in {"looking", "syncing"} =>
        threads[TheFlush].it.seen = clock

LookupStep(op, path, raised, ret, it) ==
    [op |-> op, path |-> path, accepted |-> ret # None, raised |-> raised,
     ret |-> ret, saw |-> it.saw, alone |-> it.t0 = clock]

\* the timer fired and _flush took its due paths
FlushTakes(todo) ==
    /\ threads[TheFlush] = DeadThread
    /\ wlast = NoStep
    /\ threads' = [threads EXCEPT ![TheFlush] = FlushThread("flushing", todo, NoIter)]
    /\ wlast' = LookupStep("_flush", Head(todo), FALSE, None, NoIter)
    /\ UNCHANGED <<fs, tgt, host, last, synced, observer, rvars, now, registry,
                   _pending, _pending_deletes, _suppressed_deletes, _timer,
                   _delete_timer, budget, hist>>

\* where a thread goes when find_group_for_path is over: an exception leaves
\* _flush (the call stands before the try), None goes on to the next path,
\* a group goes to the try block
AfterLookup(th, raised, ret, it) ==
    IF raised THEN FlushThread("dead", Tail(th.todo), it)
    ELSE IF ret = None
         THEN FlushThread(IF Tail(th.todo) = <<>> THEN "dead" ELSE "flushing",
                          Tail(th.todo), it)
         ELSE FlushThread("syncing", th.todo, [it EXCEPT !.ret = ret])

LookupMoves(th, res) ==
    LET path == Head(th.todo)
        it == [res.it EXCEPT !.seen = clock,
                             !.saw = @ \cup {FindIn(_groups, path[1], 1)}]
    IN
    /\ threads' = [threads EXCEPT ![TheFlush] =
                     IF res.end THEN AfterLookup(th, res.raised, None, it)
                     ELSE FlushThread("looking", th.todo, it)]
    /\ wlast' = IF res.end
                THEN LookupStep("find_group_for_path", path, res.raised, None, it)
                ELSE LookupStep("next", path, FALSE, None, it)
    /\ UNCHANGED <<fs, tgt, host, last, synced, observer, rvars, now, registry,
                   _pending, _pending_deletes, _suppressed_deletes, _timer,
                   _delete_timer, budget, hist>>

\* _flush calls find_group_for_path(path): the iterator is made and gives
\* its first group
LookupStart ==
    /\ threads[TheFlush].pc = "flushing"
    /\ LET th == threads[TheFlush] IN
       LookupMoves(th, DictNext(_groups, NewIter(_groups, Head(th.todo)[1], clock)))

\* the inner loop at one folder of the group: the path is in it, or not; at
\* the end of the list the thread is between groups
LookupFolder ==
    /\ threads[TheFlush].pc = "looking"
    /\ threads[TheFlush].it.gid # 0
    /\ LET th == threads[TheFlush]
           path == Head(th.todo)
           fl == HeldFolders(_groups, th.it)
           it == [th.it EXCEPT !.seen = clock, !.fl = fl,
                               !.saw = @ \cup {FindIn(_groups, path[1], 1)}]
           norm_gf == normpath(abspath(fl[it.j]))
       IN
       /\ IF it.j > Len(fl)
          THEN /\ threads' = [threads EXCEPT ![TheFlush] =
                                FlushThread("looking", th.todo, [it EXCEPT !.gid = 0])]
               /\ wlast' = LookupStep("folders", path, FALSE, None, it)
          ELSE IF norm_gf = <<path[1], 0>>
          THEN /\ threads' = [threads EXCEPT ![TheFlush] =
                                AfterLookup(th, FALSE, Some(<<it.gid, norm_gf>>), it)]
               /\ wlast' = LookupStep("find_group_for_path", path, FALSE,
                                      Some(<<it.gid, norm_gf>>), it)
          ELSE /\ threads' = [threads EXCEPT ![TheFlush] =
                                FlushThread("looking", th.todo, [it EXCEPT !.j = @ + 1])]
               /\ wlast' = LookupStep("folders", path, FALSE, None, it)
       /\ UNCHANGED <<fs, tgt, host, last, synced, observer, rvars, now, registry,
                      _pending, _pending_deletes, _suppressed_deletes, _timer,
                      _delete_timer, budget, hist>>

\* the outer loop asks the dict iterator for the next group
LookupNext ==
    /\ threads[TheFlush].pc = "looking"
    /\ threads[TheFlush].it.gid = 0
    /\ LookupMoves(threads[TheFlush], DictNext(_groups, threads[TheFlush].it))

\* the try block of _flush for a path with a group: sync_file_to_group and,
\* when links were made, on_sync; whatever either raises is passed over
FolderNumbers(fl) == [i \in 1..Len(fl) |-> normpath(abspath(fl[i]))[1]]
FlushActs(cb_raises) ==
    /\ threads[TheFlush].pc = "syncing"
    /\ LET th == threads[TheFlush]
           path == Head(th.todo)
           gid == Value(th.it.ret)[1]
           on == IF HasGroup(_groups, gid) THEN GetGroup(_groups, gid).sync_enabled
                 ELSE TRUE
           r == sync_file_to_group(World, path[1], path[2],
                                   FolderNumbers(HeldFolders(_groups, th.it)))
           on_sync == on /\ ~r.raised /\ r.created # <<>>
       IN
       /\ cb_raises => on_sync
       /\ fs' = IF on THEN r.w.fs ELSE fs
       /\ tgt' = IF on THEN r.w.tgt ELSE tgt
       /\ threads' = [threads EXCEPT ![TheFlush] =
             FlushThread(IF Tail(th.todo) = <<>> THEN "dead" ELSE "flushing",
                         Tail(th.todo), th.it)]
       /\ wlast' = LookupStep("sync", path, (on /\ r.raised) \/ cb_raises,
                              th.it.ret, th.it)
    /\ UNCHANGED <<host, last, synced, observer, rvars, now, registry,
                   _pending, _pending_deletes, _suppressed_deletes, _timer,
                   _delete_timer, budget, hist>>

\* the folder lists the foreground makes groups of
LookupLists == {<<<<2, 0>>>>, <<<<2, 0>>, <<1, 0>>>>, <<<<1, 1>>, <<2, 0>>>>}

\* the foreground's calls that change the size of self._groups or a group's
\* folder list in place, one at most between two steps of the lookup
NextLookup ==
    \/ \E fl \in LookupLists, se \in BOOLEAN :
          Observed /\ CreateGroupCall(fl, EmptyName, se)
    \/ \E id \in KnownIds : Observed /\ DeleteGroupCall(id)
    \/ \E id \in KnownIds, p \in InputPaths : Observed /\ AddFolderToGroupCall(id, p)
    \/ \E id \in KnownIds, p \in InputPaths :
          Observed /\ RemoveFolderFromGroupCall(id, p)
    \/ \E todo \in DueLists : FlushTakes(todo)
    \/ LookupStart
    \/ LookupFolder
    \/ LookupNext
    \/ \E cb_raises \in BOOLEAN : FlushActs(cb_raises)

\* two directories without markers: the first holds the file "a" and the
\* file "d/a", the second a regular file "d"; no registry file, a registry
\* constructed on it, no timer running
LookupFolders ==
    [f \in AllFolders |->
        IF f = 1 THEN [EmptyFolder EXCEPT !["a"] = 1, !["d"] = DIR, !["d/a"] = 2]
        ELSE IF f = 2 THEN [EmptyFolder EXCEPT !["d"] = 3]
        ELSE EmptyFolder]
InitLookup ==
    /\ fs = LookupFolders
    /\ tgt = [t \in Targets |-> [n \in TargetNames |-> ABSENT]]
    /\ last = NoCall([fs |-> fs, tgt |-> tgt])
    /\ synced = {}
    /\ host = OneVolume
    /\ WatcherIdle(0)
    /\ ObserverIdle
    /\ file = MissingFile
    /\ _groups = load(file).groups
    /\ markers = [f \in Folders |-> NoId]
    /\ rlast = [op |-> "none", args |-> <<>>, ret |-> None]
    /\ uuid = 1
    /\ clock = 1

SpecLookup == InitLookup /\ [][NextLookup]_vars

\* C32: a failure on one path of a flush (raised by the sync, by the status
\* callback or by the registry lookup for that path) never leaves the timer
\* thread and never keeps the remaining due paths of the flush from being
\* handled: no step of a flush raises out of _flush, and a flush thread that
\* is gone has come to every path it took.
C32_FailuresContained ==
    /\ wlast.op = "find_group_for_path" => ~wlast.raised
    /\ threads[TheFlush].pc = "dead" => threads[TheFlush].todo = <<>>

\* failures of the sync and of the callback are passed over: after a failed
\* try block the thread is at the next path, or done with none left
C32_TryBlockContained ==
    (wlast.op = "sync" /\ wlast.raised) =>
        \/ threads[TheFlush].pc = "flushing" /\ threads[TheFlush].todo # <<>>
        \/ threads[TheFlush].pc = "dead" /\ threads[TheFlush].todo = <<>>

\* the lookup raised with a due path left
C32_LookupRaised ==
    /\ wlast.op = "find_group_for_path"
    /\ wlast.raised
    /\ threads[TheFlush].pc = "dead"
    /\ threads[TheFlush].todo # <<>>

\* a failed try block with a due path left
C32_TryBlockFailed ==
    /\ wlast.op = "sync"
    /\ wlast.raised
    /\ threads[TheFlush].pc = "flushing"

\* C33: registry accesses are mutually exclusive: no foreground mutation
\* happens while a find_group_for_path lookup of the watcher is under way,
\* and every lookup returns, without raising, the answer for the table as it
\* was before or after each mutation.
MutationBesideLookup ==
    /\ _groups' # _groups
    /\ threads[TheFlush].pc = "looking"
AnswerForATable ==
    wlast.op = "find_group_for_path" => (~wlast.raised /\ wlast.ret \in wlast.saw)
C33_RegistryAccessExclusive ==
    [](AnswerForATable) /\ [][~MutationBesideLookup]_vars

\* a lookup came back with an answer that no state of the table gives
C33_TornAnswer ==
    /\ wlast.op = "find_group_for_path"
    /\ ~wlast.raised
    /\ wlast.ret \notin wlast.saw

\* a lookup with no mutation beside it gives the table's answer
C33_AloneAnswersTable ==
    (wlast.op = "find_group_for_path" /\ wlast.alone) =>
        (~wlast.raised /\ wlast.ret \in wlast.saw)

\* ------------------------------------------------- the watcher's own links
\* files are created in the first member folder; the observer reports them
\* and, later, every link the watcher's own sync made of them
NextQuiesce ==
    \/ \E ep \in GroupFiles : OnCreated(ep, FALSE)
    \/ \E ep \in observer.links : OnCreated(ep, FALSE)
    \/ \E id \in TimerIds : TimerFires(id)
    \/ \E id \in TimerIds : FlushSelect(id)
    \/ \E id \in TimerIds : FlushSync(id)
    \/ Tick

\* the clock runs, expired timers fire and their threads get the lock
TimersRun == Tick \/ \E id \in TimerIds : TimerFires(id) \/ FlushSelect(id)

SpecQuiesce == InitAutoSync /\ [][NextQuiesce]_vars /\ WF_vars(TimersRun)

\* a path the user created no file at: a notification for it is of the
\* watcher's own making
OwnLink(ep) == ep \notin GroupFiles

\* no timer waits to fire or has fired and not yet read its table
NoTimerScheduled ==
    /\ _timer = NoTimer \/ ~is_alive(threads, _timer) \/ threads[_timer].pc = "working"
    /\ \A id \in TimerIds : threads[id].pc \notin {"waiting", "started"}

\* C34: the watcher quiesces: once the files' own create notifications have
\* stopped, the notifications for the links the watcher made lead to no
\* further link (the sync of such a path changes nothing on disk and
\* announces no link), both pending tables become and stay empty, and no
\* timer stays scheduled, whatever the second folder holds under the names.
SyncOfOwnLinkIdle ==
    \A id \in TimerIds :
        (FlushSync(id) /\ OwnLink(Head(threads[id].todo).path)) =>
            (fs' = fs /\ tgt' = tgt /\ observer'.links = observer.links)
C34_WatcherQuiesces ==
    /\ [][SyncOfOwnLinkIdle]_vars
    /\ <>[](_pending = <<>> /\ _pending_deletes = <<>> /\ NoTimerScheduled)

\* the flush has synced a link of the watcher's own, and all is quiet
C34_Witness ==
    /\ wlast.op = "sync"
    /\ wlast.accepted
    /\ OwnLink(wlast.path)
    /\ observer.links = {}
    /\ _pending = <<>>
    /\ NoTimerScheduled
    /\ \A id \in TimerIds : ~is_alive(threads, id)

\* ------------------------------------------- a file removed and made again
\* the file a user puts where one was removed
NewFile == 2

\* a user creates a file in a watched member folder, under a free name
WatchedCreate(ep) ==
    /\ ~Exists(World, ep[1], ep[2])
    /\ IsDir(World, ep[1], Parent(ep[2]))
    /\ LET w == SetEntry(World, ep[1], ep[2], NewFile) IN fs' = w.fs /\ tgt' = w.tgt
    /\ observer' = LinksMade(observer, {ep})
    /\ UNCHANGED <<last, synced, rvars, wvars, host>>

\* users remove copies, once the observer has delivered what it saw of the
\* path before, and may put a new file in the place of the first folder's;
\* the observer delivers what it has seen, at any time
NextRecreate ==
    \/ \E ep \in CopyPaths : ep \notin observer.queue /\ WatchedUnlink(ep)
    \/ \E ep \in GroupFiles : WatchedCreate(ep)
    \/ \E ep \in observer.queue : OnDeleted(ep, FALSE)
    \/ \E ep \in observer.links : OnCreated(ep, FALSE)
    \/ \E id \in TimerIds : TimerFires(id)
    \/ \E id \in TimerIds : FlushSelect(id)
    \/ \E id \in TimerIds : FlushDeletesSelect(id)
    \/ \E id \in TimerIds : FlushSync(id)
    \/ \E id \in TimerIds : FlushDelete(id)
    \/ \E id \in TimerIds : FlushSuppress(id)
    \/ Tick

SpecRecreate == InitSuppress /\ [][NextRecreate]_vars

\* C35: a debounced deletion of a path is propagated only if the path is
\* still absent from its source folder when the delete flush runs: a turn of
\* _flush_deletes for a path that exists again removes nothing from the
\* other member folders.
StaleDelete(id) ==
    /\ FlushDelete(id)
    /\ Exists(World, Head(threads[id].todo).path[1], Head(threads[id].todo).path[2])
C35_RecreatedNotPropagated ==
    [][\A id \in TimerIds : StaleDelete(id) => (fs' = fs /\ tgt' = tgt)]_vars

\* the delete flush took the other folders' entries away while the path was
\* there again
C35_RemovedForStaleDelete ==
    /\ wlast.op = "delete"
    /\ wlast.accepted
    /\ Exists(World, wlast.path[1], wlast.path[2])
    /\ \E f \in Folders \ {wlast.path[1]} : ~Exists(World, f, wlast.path[2])
    /\ \E id \in TimerIds : threads[id].pc = "suppressing"

\* a delete flush for a path that is still absent propagates as before
C35_AbsentPropagated ==
    [][\A id \in TimerIds :
          (FlushDelete(id) /\ ~StaleDelete(id) /\ GroupOn(registry, Head(threads[id].todo).path))
              => \A f \in Folders : ~Exists([fs |-> fs', tgt |-> tgt'], f,
                                            Head(threads[id].todo).path[2])]_vars

\* C36: the suppression set swallows the watcher's own deletions only: the
\* delete notification of a user's removal is never dropped because of an
\* entry of the set, and when the notifications of all the watcher's own
\* removals have been delivered, and every flush has recorded its removals,
\* the set is empty.
OwnDelivered ==
    /\ observer.queue \cap observer.own = {}
    /\ \A id \in TimerIds : threads[id].pc # "suppressing"
UserDeleteHeard ==
    \A ep \in CopyPaths :
        (OnDeleted(ep, FALSE) /\ ep \notin observer.own) => ~Dropped(ep)
C36_OnlyOwnDeletesSwallowed ==
    /\ [](OwnDelivered => _suppressed_deletes = {})
    /\ [][UserDeleteHeard]_vars

\* an entry is left in the set with no notification to come for it
C36_StaleEntry ==
    /\ OwnDelivered
    /\ observer.queue = {}
    /\ _suppressed_deletes # {}

\* the notification of a user's removal has met an entry of the set
C36_UserDeleteDropped ==
    /\ wlast.op = "on_deleted"
    /\ ~wlast.accepted
    /\ wlast.path \notin observer.own
    /\ registry.registered /\ registry.sync_enabled

\* ------------------------------------------------------------------- C37
\* the member folders of a group, as directories
MemberDirs(g) == {normpath(abspath(g.folders[i]))[1] : i \in 1..Len(g.folders)}

\* C37: after any sequence of registry mutators every member folder of every
\* registered group carries a marker whose id is that of a registered group
\* containing the folder, and no folder that belongs to no group carries a
\* marker; also when a folder is a member of more than one group.
C37_MarkersMatchRegistry ==
    /\ \A g \in Range(_groups) : \A f \in MemberDirs(g) :
          /\ read_mirror_marker(Reg, f) # NoId
          /\ \E h \in Range(_groups) :
                h.id = read_mirror_marker(Reg, f) /\ f \in MemberDirs(h)
    /\ \A f \in Folders :
          (\A g \in Range(_groups) : f \notin MemberDirs(g)) =>
              ~IsFile(Stat(World, f, MIRROR_MARKER))

\* a folder of two groups lost its marker when one of them was deleted
C37_SharedFolderUnmarked ==
    /\ rlast.op = "delete_group"
    /\ rlast.ret = TRUE
    /\ \E g \in Range(_groups) : \E f \in MemberDirs(g) :
          ~IsFile(Stat(World, f, MIRROR_MARKER))
    /\ \A g \in Range(_groups) : \A i, j \in 1..Len(g.folders) :
          i # j => normpath(g.folders[i]) # normpath(g.folders[j])

\* a folder that belongs to no group carries no marker
C37_NoMarkerOutsideGroups ==
    \A f \in Folders :
        (\A g \in Range(_groups) : f \notin MemberDirs(g)) =>
            ~IsFile(Stat(World, f, MIRROR_MARKER))

\* ------------------------------------------------------ save() that raises
\* the registry a mutator leaves when its save() raises (the file cannot be
\* written and stays as it was), given what the call would have left: where
\* save() is the call's last statement everything before it has happened;
\* where the markers are written or removed after save() only the table has
\* changed
SaveRaised(r, res, save_is_last) ==
    [r |-> IF save_is_last THEN [res.r EXCEPT !.file = r.file]
           ELSE [r EXCEPT !.groups = res.r.groups],
     ret |-> None]

\* a call in which OSError from save() reached the caller
OSError == <<"OSError">>
Raised(op, res) == CalledWith(op, OSError, res)

CreateGroupFails(folders, name, sync_enabled) ==
    /\ CanCall
    /\ Len(_groups) < MaxGroups
    /\ Raised("create_group",
              SaveRaised(Reg, create_group(Reg, folders, name, sync_enabled, uuid, clock),
                         FALSE))
    /\ uuid' = uuid + 1

UpdateGroupFails(id, name, folders, sync_enabled) ==
    /\ CanCall
    /\ HasGroup(_groups, id)
    /\ Raised("update_group",
              SaveRaised(Reg, update_group(Reg, id, name, folders, sync_enabled, clock),
                         TRUE))
    /\ UNCHANGED uuid

DeleteGroupFails(id) ==
    /\ CanCall
    /\ HasGroup(_groups, id)
    /\ Raised("delete_group", SaveRaised(Reg, delete_group(Reg, id), TRUE))
    /\ UNCHANGED uuid

ClearAllGroupsFails ==
    /\ CanCall
    /\ Raised("clear_all_groups", SaveRaised(Reg, clear_all_groups(Reg), TRUE))
    /\ UNCHANGED uuid

AddFolderToGroupFails(id, folder) ==
    /\ CanCall
    /\ HasGroup(_groups, id)
    /\ abspath(folder) \notin Range(GetGroup(_groups, id).folders)
    /\ Raised("add_folder_to_group",
              SaveRaised(Reg, add_folder_to_group(Reg, id, folder, clock), FALSE))
    /\ UNCHANGED uuid

RemoveFolderFromGroupFails(id, folder) ==
    /\ CanCall
    /\ HasGroup(_groups, id)
    /\ abspath(folder) \in Range(GetGroup(_groups, id).folders)
    /\ Raised("remove_folder_from_group",
              SaveRaised(Reg, remove_folder_from_group(Reg, id, folder, clock), FALSE))
    /\ UNCHANGED uuid

\* the folder lists and paths the callers name
SaveLists == {<<<<1, 0>>, <<2, 0>>>>, <<<<1, 0>>>>}
SavePaths == {<<1, 0>>, <<2, 0>>}

\* every call of the registry, with save() working or raising
NextSaveFails ==
    \/ \E fl \in SaveLists : CreateGroupCall(fl, EmptyName, TRUE)
    \/ \E id \in KnownIds, fl \in {None} \cup {Some(l) : l \in SaveLists} :
          UpdateGroupCall(id, None, fl, Some(FALSE))
    \/ \E id \in KnownIds : DeleteGroupCall(id)
    \/ ClearAllGroupsCall
    \/ \E id \in KnownIds, p \in SavePaths : AddFolderToGroupCall(id, p)
    \/ \E id \in KnownIds, p \in SavePaths : RemoveFolderFromGroupCall(id, p)
    \/ \E fl \in SaveLists : CreateGroupFails(fl, EmptyName, TRUE)
    \/ \E id \in KnownIds, fl \in {None} \cup {Some(l) : l \in SaveLists} :
          UpdateGroupFails(id, None, fl, Some(FALSE))
    \/ \E id \in KnownIds : DeleteGroupFails(id)
    \/ ClearAllGroupsFails
    \/ \E id \in KnownIds, p \in SavePaths : AddFolderToGroupFails(id, p)
    \/ \E id \in KnownIds, p \in SavePaths : RemoveFolderFromGroupFails(id, p)

SpecSaveFails == InitRegistry /\ [][NextSaveFails]_vars

\* C38: a mutator whose save() fails leaves the registry as it was: the
\* error reaches the caller and the table in memory, the file and the
\* folders' markers are unchanged.
SaveFailed == clock' # clock /\ rlast'.args = OSError
C38_FailedSaveChangesNothing ==
    [][SaveFailed => (_groups' = _groups /\ file' = file /\ markers' = markers
                      /\ fs' = fs)]_vars

\* the part that holds: the file is as it was
C38_FileUnchanged == [][SaveFailed => file' = file]_vars

\* after a failed create_group the table holds a group the file does not
C38_TableAheadOfFile ==
    /\ rlast.op = "create_group"
    /\ rlast.args = OSError
    /\ load(file).groups # _groups

\* after a failed delete_group the markers are gone and the file still holds
\* the group
C38_MarkersGoneGroupOnFile ==
    /\ rlast.op = "delete_group"
    /\ rlast.args = OSError
    /\ Len(load(file).groups) > Len(_groups)
    /\ \E g \in Range(load(file).groups) : \E f \in MemberDirs(g) :
          ~IsFile(Stat(World, f, MIRROR_MARKER))

\* ------------------------------------------------------------------- C39
\* C39: sync writes only inside the group: no call of sync_file_to_group or
\* sync_group creates an entry in the target directory of a folder symlink or
\* anywhere else outside the member folders, also when a path's parent is a
\* real directory in one folder and a folder symlink in another.
SyncCalled == last'.op \in {"sync_file_to_group", "sync_group"}
C39_WritesOnlyInsideGroup ==
    [][SyncCalled => (tgt' = tgt /\ fs'[Outside] = fs[Outside])]_vars

\* a link was made in the directory a folder symlink points to
C39_WrittenBehindSymlink ==
    /\ last.op = "sync_file_to_group"
    /\ ~last.raised
    /\ last.p = "d/a"
    /\ last.pre.fs[last.f]["d"] = DIR
    /\ \E g \in Folders \ {last.f} : IsLnk(last.pre.fs[g]["d"])
    /\ tgt # last.pre.tgt

\* what holds: nothing is written into the directory outside the group that
\* no symlink points to, and nothing into a target but through a symlink of
\* a member folder that stands where the path's directory would be
C39_OnlyThroughMemberSymlinks ==
    [][SyncCalled
          => /\ fs'[Outside] = fs[Outside]
             /\ \A t \in Targets :
                   tgt'[t] # tgt[t] => \E g \in Folders : fs[g]["d"] = Lnk(t)]_vars
====
